---- MODULE Spec2Model ----
(***************************************************************************)
(* Chat, notification and transaction core of the campus marketplace       *)
(* backend (backend/apps/chat, backend/apps/notifications,                 *)
(* backend/apps/transactions).  Rows of a table are the elements of a      *)
(* sequence; the primary key of a row is its index.                        *)
(***************************************************************************)
EXTENDS Integers, Sequences, FiniteSets, TLC

\* ------------------------------------------------------------------ bounds
NumUsers == 3
MaxMsgs == 2
MaxNotifs == 4
MaxListings == 1
MaxTx == 2
MaxConvs == 2
MaxConcMsgs == 4  \* messages stored under interleaved execution
NumProcs == 2
MaxConns == 1     \* websocket handshakes served

NULL == 0
NONE == "none"  \* None in a text column
Users == 1..NumUsers
Procs == 1..NumProcs
Servers == {1, 2}  \* server processes, each with its own channel layer

VARIABLES
    now,            \* the wall clock read by timezone.now()
    conversations,  \* chat_conversation rows
    participants,   \* chat_conversationparticipant rows, keyed by <<conversation, user>>
    messages,       \* chat_message rows
    notifications,  \* notifications rows
    listings,       \* listings rows
    transactions,   \* transactions rows
    bus,            \* events handed to channel_layer.group_send and not yet
                    \* passed on by the consumers, oldest first
    procs,          \* requests in progress (interleaved execution only)
    conns           \* websocket connections, in the order they were opened

vars == <<now, conversations, participants, messages, notifications,
          listings, transactions, bus, procs, conns>>

\* ------------------------------------------------------------ pure helpers
Min(a, b) == IF a <= b THEN a ELSE b
Max(a, b) == IF a >= b THEN a ELSE b

\* Conversation.make_direct_key: canonical, order-independent pair key
make_direct_key(a, b) == <<Min(a, b), Max(a, b)>>

Ids(s) == 1..Len(s)

IsWhite(ch) == ch = " "

RECURSIVE lstrip(_)
lstrip(t) == IF t = <<>> THEN <<>>
             ELSE IF IsWhite(Head(t)) THEN lstrip(Tail(t)) ELSE t

RECURSIVE rstrip(_)
rstrip(t) == IF t = <<>> THEN <<>>
             ELSE IF IsWhite(t[Len(t)]) THEN rstrip(SubSeq(t, 1, Len(t) - 1)) ELSE t

\* str.strip()
strip_leftOnly(t) == lstrip(t)

strip(t) == rstrip(lstrip(t))

\* MessageCreateSerializer(data=request.data).is_valid(): a text that is
\* empty or only whitespace is not valid
MessageCreateSerializer_is_valid(text) == strip(text) # <<>>

Texts == { <<"h", "i">>, <<" ", "h", "i", " ">>, <<" ">> }

IsMember(c, u) == <<c, u>> \in DOMAIN participants

\* ConversationViewSet.get_queryset: the conversations get_object() finds for
\* the caller, and the ones listed to them
get_queryset_all(u) == Ids(conversations)

get_queryset(u) == { c \in Ids(conversations) : IsMember(c, u) }

ConvByKey(dk) == { c \in Ids(conversations) : conversations[c].direct_key = dk }

MsgsOf(c) == { m \in Ids(messages) : messages[m].conversation = c }


\* ------------------------------------------------ notifications/signals.py
Notif(type, rcpt, actor, msg, lst) ==
    [notification_type |-> type, recipient |-> rcpt, actor |-> actor,
     message |-> msg, listing |-> lst, is_read |-> FALSE]

\* conversation.participants.exclude(user=instance.sender)
OtherParticipants(parts, c, sender) ==
    { u \in Users : <<c, u>> \in DOMAIN parts /\ u # sender }

\* variant: the sender is not excluded from the queryset
FirstOther_withSender(parts, c, sender) ==
    { u \in Users : <<c, u>> \in DOMAIN parts }

\* .first() of that queryset: one of its rows, or None
FirstOther(parts, c, sender) ==
    IF OtherParticipants(parts, c, sender) = {} THEN {NULL}
    ELSE OtherParticipants(parts, c, sender)

\* post_save receiver of chat Message (created=True), recipient r chosen by .first()
create_message_notification(ntf, mid, sender, r) ==
    IF r = NULL THEN ntf
    ELSE Append(ntf, Notif("MESSAGE", r, sender, mid, NULL))

\* variant: the receiver does not look at created
create_offer_notification_onEverySave(ntf, tx, created) ==
    IF tx.buyer = tx.seller THEN ntf
    ELSE Append(ntf, Notif("NEW_OFFER", tx.seller, tx.buyer, NULL, tx.listing))

\* post_save receiver of Transaction
create_offer_notification(ntf, tx, created) ==
    IF ~created THEN ntf
    ELSE IF tx.buyer = tx.seller THEN ntf
    ELSE Append(ntf, Notif("NEW_OFFER", tx.seller, tx.buyer, NULL, tx.listing))

\* variant: cancelled transactions are not excluded
ActiveTxOf_withCancelled(txs, l) ==
    SelectSeq([i \in Ids(txs) |-> i], LAMBDA i : txs[i].listing = l)

\* the transactions the sold receiver iterates over, in row order
ActiveTxOf(txs, l) ==
    SelectSeq([i \in Ids(txs) |-> i],
              LAMBDA i : txs[i].listing = l /\ txs[i].status # "CANCELLED")

RECURSIVE SoldLoop(_, _, _, _, _)
SoldLoop(ntf, txs, ids, l, owner) ==
    IF ids = <<>> THEN ntf
    ELSE IF txs[Head(ids)].buyer = owner
         THEN SoldLoop(ntf, txs, Tail(ids), l, owner)
         ELSE SoldLoop(Append(ntf, Notif("LISTING_SOLD", txs[Head(ids)].buyer,
                                         owner, NULL, l)),
                       txs, Tail(ids), l, owner)

\* post_save receiver of Listing
create_sold_notification(ntf, txs, l, listing, created) ==
    IF ~created /\ listing.status = "sold"
    THEN SoldLoop(ntf, txs, ActiveTxOf(txs, l), l, listing.user)
    ELSE ntf

\* ------------------------------------------------------------ message store
Msg(c, sender, t, text, md) ==
    [conversation |-> c, sender |-> sender, created_at |-> t,
     text |-> text, metadata |-> md]

\* Conversation.objects.filter(pk=conv.pk).update(last_message_at=m.created_at)
TouchConversation(convs, c, t) ==
    [convs EXCEPT ![c].last_message_at = t]

\* variant: the filter has no recipient
NotifsUpTo_anyRecipient(ntf, msgs, u, c, t) ==
    { n \in Ids(ntf) :
        /\ ntf[n].notification_type = "MESSAGE"
        /\ ntf[n].message # NULL
        /\ msgs[ntf[n].message].conversation = c
        /\ msgs[ntf[n].message].created_at <= t
        /\ ~ntf[n].is_read }

\* Notification.objects.filter(notification_type="MESSAGE", recipient=u,
\*   message__conversation=c, message__created_at__lte=t, is_read=False)
NotifsUpTo(ntf, msgs, u, c, t) ==
    { n \in Ids(ntf) :
        /\ ntf[n].notification_type = "MESSAGE"
        /\ ntf[n].recipient = u
        /\ ntf[n].message # NULL
        /\ msgs[ntf[n].message].conversation = c
        /\ msgs[ntf[n].message].created_at <= t
        /\ ~ntf[n].is_read }

\* variant: the named message's own notification is left out
MarkNotifsUpTo_before(ntf, msgs, u, c, t) ==
    [n \in Ids(ntf) |->
        IF n \in NotifsUpTo(ntf, msgs, u, c, t) /\ msgs[ntf[n].message].created_at < t
        THEN [ntf[n] EXCEPT !.is_read = TRUE] ELSE ntf[n]]

\* ....update(is_read=True)
MarkNotifsUpTo(ntf, msgs, u, c, t) ==
    [n \in Ids(ntf) |->
        IF n \in NotifsUpTo(ntf, msgs, u, c, t)
        THEN [ntf[n] EXCEPT !.is_read = TRUE] ELSE ntf[n]]

\* variant: the pointer is written whatever it holds
ShouldAdvance_always(ptr, msgs, m) == TRUE

\* the test both mark-read paths apply to the participant row they loaded
ShouldAdvance(ptr, msgs, m) ==
    ptr = NULL \/ msgs[ptr].created_at < msgs[m].created_at

\* variant: created_at__gte in place of created_at__gt
unread_count_gte(u, c) ==
    IF MsgsOf(c) # {} /\ IsMember(c, u)
    THEN IF participants[<<c, u>>].last_read_message = NULL
         THEN Cardinality(MsgsOf(c))
         ELSE Cardinality({ m \in MsgsOf(c) :
                 messages[m].created_at >=
                 messages[participants[<<c, u>>].last_read_message].created_at })
    ELSE 0

\* unread computed by ConversationViewSet.list for one conversation row
unread_count(u, c) ==
    IF MsgsOf(c) # {} /\ IsMember(c, u)
    THEN IF participants[<<c, u>>].last_read_message = NULL
         THEN Cardinality(MsgsOf(c))
         ELSE Cardinality({ m \in MsgsOf(c) :
                 messages[m].created_at >
                 messages[participants[<<c, u>>].last_read_message].created_at })
    ELSE 0

Event(type, c, m, u) == [type |-> type, group |-> c, message_id |-> m, user |-> u]


\* ------------------------------------------------------------------- Init
Idle == [pc |-> "idle", op |-> "none", user |-> NULL, conv |-> NULL,
         msg |-> NULL, ptr |-> NULL, updated |-> FALSE]

NewPart == [last_read_message |-> NULL, last_read_at |-> NULL]

Init ==
    /\ now = 0
    /\ conversations = <<>>
    /\ participants = [p \in {} |-> NewPart]
    /\ messages = <<>>
    /\ notifications = <<>>
    /\ listings = <<>>
    /\ transactions = <<>>
    /\ bus = <<>>
    /\ procs = [p \in Procs |-> Idle]
    /\ conns = <<>>

\* --------------------------------------------- conversation get-or-create
\* Conversation.objects.select_for_update().get_or_create(direct_key=dk, ...)
GetOrCreateConv_alwaysCreate(convs, dk, creator) ==
    Append(convs, [direct_key |-> dk, created_by |-> creator,
                   last_message_at |-> NULL])

GetOrCreateConv(convs, dk, creator) ==
    IF \E c \in Ids(convs) : convs[c].direct_key = dk THEN convs
    ELSE Append(convs, [direct_key |-> dk, created_by |-> creator,
                        last_message_at |-> NULL])

ConvId(convs, dk) == CHOOSE c \in Ids(convs) : convs[c].direct_key = dk

\* need = {a, b} - have; one ConversationParticipant row per missing user
EnsureParticipants(parts, c, need) ==
    parts @@ [p \in { <<c, u>> : u \in need } \ DOMAIN parts |-> NewPart]

\* ConversationViewSet.direct: the status and the conversation id of the answer
direct_response(u, peer) ==
    IF peer \notin Users THEN [status |-> 404, id |-> NULL]
    ELSE IF ConvByKey(make_direct_key(u, peer)) = {}
         THEN [status |-> 201, id |-> Len(conversations) + 1]
         ELSE [status |-> 200, id |-> ConvId(conversations, make_direct_key(u, peer))]

\* ConversationViewSet.direct
Direct(u, peer) ==
    /\ IF peer \notin Users
       THEN /\ UNCHANGED <<conversations, participants>>
       ELSE LET dk == make_direct_key(u, peer)
                created == ConvByKey(dk) = {}
                convs2 == GetOrCreateConv(conversations, dk, u)
                c == ConvId(convs2, dk)
            IN /\ conversations' = convs2
               /\ participants' = EnsureParticipants(participants, c, {u, peer})
    /\ UNCHANGED <<now, messages, notifications, listings, transactions, bus, procs>>

\* ------------------------------------------------------ sending a message
\* ConversationViewSet.send
Send(u, c, text) ==
    IF c \notin get_queryset(u)
    THEN /\ UNCHANGED <<now, conversations, participants, messages,
                        notifications, listings, transactions, bus, procs>>
    ELSE IF ~MessageCreateSerializer_is_valid(text)
    THEN /\ UNCHANGED <<now, conversations, participants, messages,
                        notifications, listings, transactions, bus, procs>>
    ELSE \E r \in FirstOther(participants, c, u) :
         LET mid == Len(messages) + 1 IN
         /\ now' = now + 1
         /\ messages' = Append(messages, Msg(c, u, now', strip(text), NULL))
         /\ notifications' = create_message_notification(notifications, mid, u, r)
         /\ conversations' = TouchConversation(conversations, c, now')
         /\ bus' = Append(bus, Event("message.new", c, mid, u))
         /\ UNCHANGED <<participants, listings, transactions, procs>>

\* ChatConsumer.receive_json, typ == "message.send", on a connection that
\* connect() accepted for (u, c)
WsSend(u, c, text) ==
    /\ c \in Ids(conversations) /\ IsMember(c, u)
    /\ IF strip(text) = <<>>
       THEN /\ UNCHANGED <<now, conversations, participants, messages,
                           notifications, listings, transactions, bus, procs>>
       ELSE \E r \in FirstOther(participants, c, u) :
            LET mid == Len(messages) + 1 IN
            /\ now' = now + 1
            /\ messages' = Append(messages, Msg(c, u, now', strip(text), NULL))
            /\ notifications' = create_message_notification(notifications, mid, u, r)
            /\ conversations' = TouchConversation(conversations, c, now')
            /\ bus' = Append(bus, Event("message.new", c, mid, u))
            /\ UNCHANGED <<participants, listings, transactions, procs>>

\* ---------------------------------------------------------- marking read
\* ConversationViewSet.read
Read(u, c, m) ==
    IF c \notin get_queryset(u)
    THEN /\ UNCHANGED <<now, conversations, participants, messages,
                        notifications, listings, transactions, bus, procs>>
    ELSE IF ~(m \in Ids(messages) /\ messages[m].conversation = c)
    THEN /\ UNCHANGED <<now, conversations, participants, messages,
                        notifications, listings, transactions, bus, procs>>
    ELSE IF ~IsMember(c, u)   \* ConversationParticipant.objects.get raises
    THEN /\ UNCHANGED <<now, conversations, participants, messages,
                        notifications, listings, transactions, bus, procs>>
    ELSE LET part == participants[<<c, u>>]
             updated == ShouldAdvance(part.last_read_message, messages, m)
             part2 == IF updated
                      THEN [last_read_message |-> m, last_read_at |-> now]
                      ELSE part
         IN /\ participants' = [participants EXCEPT ![<<c, u>>] = part2]
            /\ notifications' = MarkNotifsUpTo(notifications, messages, u, c,
                                               messages[m].created_at)
            /\ bus' = IF updated
                      THEN Append(bus, Event("read.broadcast", c, m, u))
                      ELSE bus
            /\ UNCHANGED <<now, conversations, messages, listings,
                           transactions, procs>>

\* ChatConsumer._mark_as_read: the rows it leaves behind
mark_as_read_parts(parts, msgs, u, c, m) ==
    IF ~(m \in Ids(msgs) /\ msgs[m].conversation = c) THEN parts
    ELSE IF <<c, u>> \notin DOMAIN parts THEN parts
    ELSE IF ShouldAdvance(parts[<<c, u>>].last_read_message, msgs, m)
         THEN [parts EXCEPT ![<<c, u>>] =
                  [last_read_message |-> m, last_read_at |-> now]]
         ELSE parts

mark_as_read_notifs(ntf, parts, msgs, u, c, m) ==
    IF ~(m \in Ids(msgs) /\ msgs[m].conversation = c) THEN ntf
    ELSE IF <<c, u>> \notin DOMAIN parts THEN ntf
    ELSE MarkNotifsUpTo(ntf, msgs, u, c, msgs[m].created_at)

\* ChatConsumer.receive_json, typ == "read.update", on a connection that
\* connect() accepted for (u, c); m = NULL stands for a missing message_id
WsRead(u, c, m) ==
    /\ c \in Ids(conversations) /\ IsMember(c, u)
    /\ IF m = NULL
       THEN /\ UNCHANGED <<participants, notifications, bus>>
       ELSE /\ participants' = mark_as_read_parts(participants, messages, u, c, m)
            /\ notifications' = mark_as_read_notifs(notifications, participants,
                                                   messages, u, c, m)
            /\ bus' = Append(bus, Event("read.broadcast", c, m, u))
    /\ UNCHANGED <<now, conversations, messages, listings, transactions, procs>>

\* ------------------------------------------------ connections and groups
\* A connection is a record: proc the server process that runs its consumer,
\* user the identity of its scope (NULL for AnonymousUser), conv the
\* conversation of its route, state "open" (accepted), "refused" (closed by
\* connect), "crashed" (consumer ended by an exception) or "gone" (disconnect
\* ran), code the close code the server sent, group_name whether the consumer
\* has the attribute, subscribed whether its channel is in the group of the
\* process-local layer, chan the events the layer queued for the consumer,
\* last_out the last frame passed to the client, last_in the type of the
\* last inbound frame.

\* ChatConsumer._serialize
serialize(mid) ==
    [id |-> mid, conversation |-> messages[mid].conversation,
     sender |-> messages[mid].sender, text |-> messages[mid].text,
     created_at |-> messages[mid].created_at]

\* the keys a frame does not carry
NoMessage ==
    [id |-> NULL, conversation |-> NULL, sender |-> NULL, text |-> <<>>,
     created_at |-> NULL]

\* no frame passed to the client yet
NoFrame ==
    [type |-> NONE, message |-> NoMessage, message_id |-> NULL, reader_id |-> NULL]

\* ChatConsumer.message_new: the frame passed to the client
message_new(ev) ==
    [type |-> "message.new", message |-> serialize(ev.message_id),
     message_id |-> NULL, reader_id |-> NULL]

\* ChatConsumer.read_broadcast: the frame passed to the client
read_broadcast(ev) ==
    [type |-> "read.broadcast", message |-> NoMessage,
     message_id |-> ev.message_id, reader_id |-> ev.user]

\* the handler the event's type names
Handle(ev) == IF ev.type = "message.new" THEN message_new(ev) ELSE read_broadcast(ev)

\* the channels of group g in the layer of process p
GroupOf(cs, p, g) ==
    { k \in Ids(cs) : cs[k].proc = p /\ cs[k].subscribed /\ cs[k].conv = g }

\* channel_layer.group_send on the layer of process p: the event is queued
\* for every channel of the group whose consumer still runs
group_send_exceptSender(cs, p, ev) ==
    [k \in Ids(cs) |->
        IF k \in GroupOf(cs, p, ev.group) /\ cs[k].user # ev.user
        THEN [cs[k] EXCEPT !.chan = Append(@, ev)]
        ELSE cs[k]]

group_send(cs, p, ev) ==
    [k \in Ids(cs) |->
        IF k \in GroupOf(cs, p, ev.group) /\ cs[k].state \in {"open", "refused"}
        THEN [cs[k] EXCEPT !.chan = Append(@, ev)]
        ELSE cs[k]]

\* a consumer takes the event from its channel and, on an accepted
\* connection, passes the frame to the client
Forward(cn, ev) ==
    IF cn.chan # <<>> /\ Head(cn.chan) = ev
    THEN [cn EXCEPT !.chan = Tail(@),
                    !.last_out = IF cn.state = "open" THEN Handle(ev) ELSE @]
    ELSE cn

\* the consumers of the group pass on the oldest published event
\* (ChatConsumer.message_new / read_broadcast)
Deliver ==
    /\ bus # <<>>
    /\ bus' = Tail(bus)
    /\ conns' = [k \in Ids(conns) |-> Forward(conns[k], Head(bus))]
    /\ UNCHANGED <<now, conversations, participants, messages, notifications,
                   listings, transactions, procs>>


\* ------------------------------------------------- listings, transactions
ListingStatuses == {"pending", "sold"}
PaymentMethods == {"venmo"}
DeliveryMethods == {"meetup"}

\* Listing.objects.create(user=u, status="active"); the sold receiver sees created=True
CreateListing(u) ==
    /\ Len(listings) < MaxListings
    /\ listings' = Append(listings, [user |-> u, status |-> "active"])
    /\ notifications' = create_sold_notification(notifications, transactions,
                            Len(listings) + 1, [user |-> u, status |-> "active"], TRUE)
    /\ UNCHANGED <<now, conversations, participants, messages, transactions, bus, procs>>

\* listing.status = st; listing.save(): post_save of an existing Listing row
SaveListing(l, st) ==
    /\ l \in Ids(listings)
    /\ listings' = [listings EXCEPT ![l].status = st]
    /\ notifications' = create_sold_notification(notifications, transactions,
                            l, listings'[l], FALSE)
    /\ Len(notifications') <= MaxNotifs
    /\ UNCHANGED <<now, conversations, participants, messages, transactions, bus, procs>>

NewTx(l, b, s) ==
    [listing |-> l, buyer |-> b, seller |-> s, status |-> "PENDING",
     payment_method |-> NONE, delivery_method |-> NONE, meet_location |-> NULL,
     meet_time |-> NULL, proposed_by |-> NONE]

\* Transaction.objects.create(listing=l, buyer=b, seller=listing.user)
CreateTransaction(l, b) ==
    /\ l \in Ids(listings)
    /\ Len(transactions) < MaxTx
    /\ transactions' = Append(transactions, NewTx(l, b, listings[l].user))
    /\ notifications' = create_offer_notification(notifications,
                            NewTx(l, b, listings[l].user), TRUE)
    /\ Len(notifications') <= MaxNotifs
    /\ UNCHANGED <<now, conversations, participants, messages, listings, bus, procs>>

\* transactions/helpers.py create_system_message, run after the handler saved
\* the transaction; ntf is the notifications table as the handler left it
create_system_message_noMetadata(t, tx, text, ntf) ==
    LET dk == make_direct_key(tx.buyer, tx.seller)
        convs2 == GetOrCreateConv(conversations, dk, tx.buyer)
        c == ConvId(convs2, dk)
        parts2 == EnsureParticipants(participants, c, {tx.buyer, tx.seller})
        mid == Len(messages) + 1
    IN \E r \in FirstOther(parts2, c, tx.buyer) :
        /\ Len(messages) < MaxMsgs
        /\ now' = now + 1
        /\ participants' = parts2
        /\ messages' = Append(messages, Msg(c, tx.buyer, now', text, NULL))
        /\ notifications' = create_message_notification(ntf, mid, tx.buyer, r)
        /\ Len(notifications') <= MaxNotifs
        /\ conversations' = TouchConversation(convs2, c, now')

create_system_message(t, tx, text, ntf) ==
    LET dk == make_direct_key(tx.buyer, tx.seller)
        convs2 == GetOrCreateConv(conversations, dk, tx.buyer)
        c == ConvId(convs2, dk)
        parts2 == EnsureParticipants(participants, c, {tx.buyer, tx.seller})
        mid == Len(messages) + 1
    IN \E r \in FirstOther(parts2, c, tx.buyer) :
        /\ Len(messages) < MaxMsgs
        /\ now' = now + 1
        /\ participants' = parts2
        /\ messages' = Append(messages, Msg(c, tx.buyer, now', text, t))
        /\ notifications' = create_message_notification(ntf, mid, tx.buyer, r)
        /\ Len(notifications') <= MaxNotifs
        /\ conversations' = TouchConversation(convs2, c, now')

Rejected(op, u, t, code) ==
    UNCHANGED <<now, conversations, participants, messages, notifications,
                   listings, transactions, bus, procs>>

\* TransactionUpdateViewSet.payment_method
payment_method(u, t, pm) ==
    /\ t \in Ids(transactions)
    /\ LET tx == transactions[t] IN
       IF tx.status \in {"COMPLETED", "CANCELLED"} THEN Rejected("payment_method", u, t, 400)
       ELSE IF tx.buyer # u THEN Rejected("payment_method", u, t, 403)
       ELSE LET tx2 == [tx EXCEPT !.payment_method = pm] IN
            /\ transactions' = [transactions EXCEPT ![t] = tx2]
            /\ create_system_message(t, tx2, <<"payment">>,
                   create_offer_notification(notifications, tx2, FALSE))
            /\ UNCHANGED <<listings, bus, procs>>

\* TransactionUpdateViewSet.delivery_details
delivery_details_keepStatus(u, t, dm) ==
    /\ t \in Ids(transactions)
    /\ LET tx == transactions[t] IN
       IF tx.status \in {"COMPLETED", "CANCELLED"} THEN Rejected("delivery_details", u, t, 400)
       ELSE IF u # tx.buyer /\ u # tx.seller THEN Rejected("delivery_details", u, t, 403)
       ELSE LET role == IF u = tx.buyer THEN "buyer" ELSE "seller"
                tx2 == [tx EXCEPT !.delivery_method = dm,
                                  !.meet_location = IF dm = "meetup" THEN 1 ELSE NULL,
                                  !.meet_time = IF dm = "meetup" THEN 1 ELSE NULL,
                                  !.proposed_by = role]
            IN /\ transactions' = [transactions EXCEPT ![t] = tx2]
               /\ create_system_message(t, tx2, <<dm>>,
                      create_offer_notification(notifications, tx2, FALSE))
               /\ UNCHANGED <<listings, bus, procs>>

delivery_details(u, t, dm) ==
    /\ t \in Ids(transactions)
    /\ LET tx == transactions[t] IN
       IF tx.status \in {"COMPLETED", "CANCELLED"} THEN Rejected("delivery_details", u, t, 400)
       ELSE IF u # tx.buyer /\ u # tx.seller THEN Rejected("delivery_details", u, t, 403)
       ELSE LET role == IF u = tx.buyer THEN "buyer" ELSE "seller"
                tx2 == [tx EXCEPT !.delivery_method = dm,
                                  !.meet_location = IF dm = "meetup" THEN 1 ELSE NULL,
                                  !.meet_time = IF dm = "meetup" THEN 1 ELSE NULL,
                                  !.status = IF tx.status \in {"PENDING", "NEGOTIATING", "SCHEDULED"}
                                             THEN "NEGOTIATING" ELSE tx.status,
                                  !.proposed_by = role]
            IN /\ transactions' = [transactions EXCEPT ![t] = tx2]
               /\ create_system_message(t, tx2, <<dm>>,
                      create_offer_notification(notifications, tx2, FALSE))
               /\ UNCHANGED <<listings, bus, procs>>

\* TransactionUpdateViewSet.confirm
confirm_ownProposal(u, t) ==
    /\ t \in Ids(transactions)
    /\ LET tx == transactions[t]
           role == IF u = tx.buyer THEN "buyer" ELSE "seller"
       IN
       IF u # tx.buyer /\ u # tx.seller THEN Rejected("confirm", u, t, 403)
       ELSE IF tx.proposed_by = NONE THEN Rejected("confirm", u, t, 400)
       ELSE IF tx.status \notin {"PENDING", "NEGOTIATING"} THEN Rejected("confirm", u, t, 400)
       ELSE LET tx2 == [tx EXCEPT !.status = "SCHEDULED", !.proposed_by = NONE] IN
            /\ transactions' = [transactions EXCEPT ![t] = tx2]
            /\ create_system_message(t, tx2, <<"confirmed">>,
                   create_offer_notification(notifications, tx2, FALSE))
            /\ UNCHANGED <<listings, bus, procs>>

confirm(u, t) ==
    /\ t \in Ids(transactions)
    /\ LET tx == transactions[t]
           role == IF u = tx.buyer THEN "buyer" ELSE "seller"
       IN
       IF u # tx.buyer /\ u # tx.seller THEN Rejected("confirm", u, t, 403)
       ELSE IF tx.proposed_by = NONE THEN Rejected("confirm", u, t, 400)
       ELSE IF tx.proposed_by = role THEN Rejected("confirm", u, t, 400)
       ELSE IF tx.status \notin {"PENDING", "NEGOTIATING"} THEN Rejected("confirm", u, t, 400)
       ELSE LET tx2 == [tx EXCEPT !.status = "SCHEDULED", !.proposed_by = NONE] IN
            /\ transactions' = [transactions EXCEPT ![t] = tx2]
            /\ create_system_message(t, tx2, <<"confirmed">>,
                   create_offer_notification(notifications, tx2, FALSE))
            /\ UNCHANGED <<listings, bus, procs>>

\* TransactionUpdateViewSet.mark_sold
mark_sold_keepListing(u, t) ==
    /\ t \in Ids(transactions)
    /\ LET tx == transactions[t] IN
       IF tx.seller # u THEN Rejected("mark_sold", u, t, 403)
       ELSE IF tx.status = "COMPLETED" THEN Rejected("mark_sold", u, t, 400)
       ELSE IF tx.status = "CANCELLED" THEN Rejected("mark_sold", u, t, 400)
       ELSE LET tx2 == [tx EXCEPT !.status = "COMPLETED"]
                txs2 == [transactions EXCEPT ![t] = tx2]
                lst2 == listings
            IN /\ transactions' = txs2
               /\ listings' = lst2
               /\ create_system_message(t, tx2, <<"sold">>,
                      create_sold_notification(
                          create_offer_notification(notifications, tx2, FALSE),
                          txs2, tx.listing, lst2[tx.listing], FALSE))
               /\ UNCHANGED <<bus, procs>>

mark_sold(u, t) ==
    /\ t \in Ids(transactions)
    /\ LET tx == transactions[t] IN
       IF tx.seller # u THEN Rejected("mark_sold", u, t, 403)
       ELSE IF tx.status = "COMPLETED" THEN Rejected("mark_sold", u, t, 400)
       ELSE IF tx.status = "CANCELLED" THEN Rejected("mark_sold", u, t, 400)
       ELSE LET tx2 == [tx EXCEPT !.status = "COMPLETED"]
                txs2 == [transactions EXCEPT ![t] = tx2]
                lst2 == [listings EXCEPT ![tx.listing].status = "sold"]
            IN /\ transactions' = txs2
               /\ listings' = lst2
               /\ create_system_message(t, tx2, <<"sold">>,
                      create_sold_notification(
                          create_offer_notification(notifications, tx2, FALSE),
                          txs2, tx.listing, lst2[tx.listing], FALSE))
               /\ UNCHANGED <<bus, procs>>

\* TransactionUpdateViewSet.cancel
cancel_completedToo(u, t) ==
    /\ t \in Ids(transactions)
    /\ LET tx == transactions[t] IN
       IF u # tx.buyer /\ u # tx.seller THEN Rejected("cancel", u, t, 403)
       ELSE IF tx.status = "CANCELLED" THEN Rejected("cancel", u, t, 400)
       ELSE IF tx.status \notin {"PENDING", "NEGOTIATING", "SCHEDULED", "COMPLETED"}
            THEN Rejected("cancel", u, t, 400)
       ELSE LET tx2 == [tx EXCEPT !.status = "CANCELLED", !.proposed_by = NONE]
                txs2 == [transactions EXCEPT ![t] = tx2]
                reopen == listings[tx.listing].status \in {"pending", "sold"}
                lst2 == IF reopen
                        THEN [listings EXCEPT ![tx.listing].status = "active"]
                        ELSE listings
                ntf1 == create_offer_notification(notifications, tx2, FALSE)
                ntf2 == IF reopen
                        THEN create_sold_notification(ntf1, txs2, tx.listing,
                                                      lst2[tx.listing], FALSE)
                        ELSE ntf1
            IN /\ transactions' = txs2
               /\ listings' = lst2
               /\ create_system_message(t, tx2, <<"cancelled">>, ntf2)
               /\ UNCHANGED <<bus, procs>>

cancel(u, t) ==
    /\ t \in Ids(transactions)
    /\ LET tx == transactions[t] IN
       IF u # tx.buyer /\ u # tx.seller THEN Rejected("cancel", u, t, 403)
       ELSE IF tx.status = "COMPLETED" THEN Rejected("cancel", u, t, 400)
       ELSE IF tx.status = "CANCELLED" THEN Rejected("cancel", u, t, 400)
       ELSE IF tx.status \notin {"PENDING", "NEGOTIATING", "SCHEDULED"}
            THEN Rejected("cancel", u, t, 400)
       ELSE LET tx2 == [tx EXCEPT !.status = "CANCELLED", !.proposed_by = NONE]
                txs2 == [transactions EXCEPT ![t] = tx2]
                reopen == listings[tx.listing].status \in {"pending", "sold"}
                lst2 == IF reopen
                        THEN [listings EXCEPT ![tx.listing].status = "active"]
                        ELSE listings
                ntf1 == create_offer_notification(notifications, tx2, FALSE)
                ntf2 == IF reopen
                        THEN create_sold_notification(ntf1, txs2, tx.listing,
                                                      lst2[tx.listing], FALSE)
                        ELSE ntf1
            IN /\ transactions' = txs2
               /\ listings' = lst2
               /\ create_system_message(t, tx2, <<"cancelled">>, ntf2)
               /\ UNCHANGED <<bus, procs>>

\* ------------------------------------------------------------ specification
\* A request is taken once the consumers have passed on the events of the
\* one before it (bus = <<>>).
DoDirect == \E u \in Users : \E peer \in (Users \cup {NumUsers + 1}) \ {u} :
    /\ (ConvByKey(make_direct_key(u, peer)) = {} => Len(conversations) < MaxConvs)
    /\ Direct(u, peer) /\ UNCHANGED conns

DoSend == \E u \in Users, c \in Ids(conversations), text \in Texts :
    /\ Len(messages) < MaxMsgs /\ Len(notifications) < MaxNotifs /\ bus = <<>>
    /\ Send(u, c, text) /\ UNCHANGED conns

DoWsSend == \E u \in Users, c \in Ids(conversations), text \in Texts :
    /\ Len(messages) < MaxMsgs /\ Len(notifications) < MaxNotifs /\ bus = <<>>
    /\ WsSend(u, c, text) /\ UNCHANGED conns

DoRead == \E u \in Users, c \in Ids(conversations), m \in 1..(Len(messages) + 1) :
    /\ bus = <<>>
    /\ Read(u, c, m) /\ UNCHANGED conns

DoWsRead == \E u \in Users, c \in Ids(conversations), m \in 1..(Len(messages) + 1) :
    /\ bus = <<>>
    /\ WsRead(u, c, m) /\ UNCHANGED conns

\* the users who list items
Sellers == {1}

\* the users of the marketplace surface: the owner of the listing and two others
Traders == {1, 2, 3}

DoCreateListing == \E u \in Sellers : CreateListing(u) /\ UNCHANGED conns

DoSaveListing == \E l \in Ids(listings), st \in ListingStatuses : SaveListing(l, st) /\ UNCHANGED conns

DoCreateTransaction == \E l \in Ids(listings), b \in Traders : CreateTransaction(l, b) /\ UNCHANGED conns

DoPaymentMethod == \E u \in Traders, t \in Ids(transactions), pm \in PaymentMethods :
    payment_method(u, t, pm) /\ UNCHANGED conns

DoDeliveryDetails == \E u \in Traders, t \in Ids(transactions), dm \in DeliveryMethods :
    delivery_details(u, t, dm) /\ UNCHANGED conns

DoConfirm == \E u \in Traders, t \in Ids(transactions) : confirm(u, t) /\ UNCHANGED conns

DoMarkSold == \E u \in Traders, t \in Ids(transactions) : mark_sold(u, t) /\ UNCHANGED conns

DoCancel == \E u \in Traders, t \in Ids(transactions) : cancel(u, t) /\ UNCHANGED conns

\* the store after direct(1, 2) and direct(1, 3), user 1 sharing one
\* conversation with each of the others, and after user 2 made an offer on
\* a listing of user 1
InitChat ==
    /\ now = 0
    /\ conversations = << [direct_key |-> make_direct_key(1, 2), created_by |-> 1,
                           last_message_at |-> NULL],
                         [direct_key |-> make_direct_key(1, 3), created_by |-> 1,
                           last_message_at |-> NULL] >>
    /\ participants = [p \in {<<1, 1>>, <<1, 2>>, <<2, 1>>, <<2, 3>>} |-> NewPart]
    /\ messages = <<>>
    /\ notifications = << Notif("NEW_OFFER", 1, 2, NULL, 1) >>
    /\ listings = << [user |-> 1, status |-> "active"] >>
    /\ transactions = << NewTx(1, 2, 1) >>
    /\ bus = <<>>
    /\ procs = [p \in Procs |-> Idle]
    /\ conns = <<>>

\* requests served one after another on the chat surface
Next ==
    \/ DoSend
    \/ DoWsSend
    \/ DoRead
    \/ DoWsRead
    \/ Deliver

Spec == InitChat /\ [][Next]_vars

\* the store of InitChat with one more conversation, opened by user 3 and
\* joined by nobody else
InitMsg ==
    /\ now = 0
    /\ conversations = << [direct_key |-> make_direct_key(1, 2), created_by |-> 1,
                           last_message_at |-> NULL],
                         [direct_key |-> make_direct_key(1, 3), created_by |-> 1,
                           last_message_at |-> NULL],
                         [direct_key |-> make_direct_key(3, 3), created_by |-> 3,
                           last_message_at |-> NULL] >>
    /\ participants = [p \in {<<1, 1>>, <<1, 2>>, <<2, 1>>, <<2, 3>>, <<3, 3>>} |-> NewPart]
    /\ messages = <<>>
    /\ notifications = << Notif("NEW_OFFER", 1, 2, NULL, 1) >>
    /\ listings = << [user |-> 1, status |-> "active"] >>
    /\ transactions = << NewTx(1, 2, 1) >>
    /\ bus = <<>>
    /\ procs = [p \in Procs |-> Idle]
    /\ conns = <<>>

\* every way a message row is created: REST send, socket send and the system
\* message of each transaction handler
NextMsg ==
    \/ DoSend
    \/ DoWsSend
    \/ Deliver
    \/ DoPaymentMethod
    \/ DoDeliveryDetails
    \/ DoConfirm
    \/ DoMarkSold
    \/ DoCancel

SpecMsg == InitMsg /\ [][NextMsg]_vars

\* the store once user 1 has listed an item
InitMarket ==
    /\ now = 0
    /\ conversations = <<>>
    /\ participants = [p \in {} |-> NewPart]
    /\ messages = <<>>
    /\ notifications = <<>>
    /\ listings = << [user |-> 1, status |-> "active"] >>
    /\ transactions = <<>>
    /\ bus = <<>>
    /\ procs = [p \in Procs |-> Idle]
    /\ conns = <<>>

\* requests served one after another on the marketplace surface; the
\* conversations are the ones the system messages open
NextMarket ==
    \/ DoSaveListing
    \/ DoCreateTransaction
    \/ DoPaymentMethod
    \/ DoDeliveryDetails
    \/ DoConfirm
    \/ DoMarkSold
    \/ DoCancel

SpecMarket == InitMarket /\ [][NextMarket]_vars


\* ------------------------------------------------- interleaved execution
\* Each of NumProcs workers serves one request; every ORM call of the
\* handler is its own autocommitted step (settings_prod.py sets no
\* ATOMIC_REQUESTS and the handlers open no transaction.atomic()).

\* the store after direct(1, 2) and two messages of user 2
InitConc ==
    /\ now = 2
    /\ conversations = << [direct_key |-> make_direct_key(1, 2), created_by |-> 1,
                           last_message_at |-> 2] >>
    /\ participants = [p \in {<<1, 1>>, <<1, 2>>} |-> NewPart]
    /\ messages = << Msg(1, 2, 1, <<"h", "i">>, NULL), Msg(1, 2, 2, <<"h", "i">>, NULL) >>
    /\ notifications = << Notif("MESSAGE", 1, 2, 1, NULL), Notif("MESSAGE", 1, 2, 2, NULL) >>
    /\ listings = <<>>
    /\ transactions = <<>>
    /\ bus = <<>>
    /\ procs = [p \in Procs |-> Idle]
    /\ conns = <<>>

Local(pc, op, u, c, m, ptr, upd) ==
    [pc |-> pc, op |-> op, user |-> u, conv |-> c, msg |-> m, ptr |-> ptr,
     updated |-> upd]

\* read / _mark_as_read: Message.objects.get and ConversationParticipant.objects.get;
\* the worker now holds its own copy of the participant row
LoadRead(p, op, u, c, m) ==
    /\ procs[p].pc = "idle"
    /\ c \in Ids(conversations) /\ IsMember(c, u)
    /\ m \in Ids(messages) /\ messages[m].conversation = c
    /\ procs' = [procs EXCEPT ![p] =
                    Local("save", op, u, c, m, participants[<<c, u>>].last_read_message, FALSE)]
    /\ UNCHANGED <<now, conversations, participants, messages, notifications,
                   listings, transactions, bus>> /\ UNCHANGED conns

\* the comparison on the loaded copy and part.save(update_fields=[...])
SaveRead(p) ==
    /\ procs[p].pc = "save"
    /\ LET l == procs[p]
           adv == ShouldAdvance(l.ptr, messages, l.msg)
       IN /\ participants' = IF adv
                             THEN [participants EXCEPT ![<<l.conv, l.user>>] =
                                      [last_read_message |-> l.msg, last_read_at |-> now]]
                             ELSE participants
          /\ procs' = [procs EXCEPT ![p].pc = "sync", ![p].updated = adv]
    /\ UNCHANGED <<now, conversations, messages, notifications, listings,
                   transactions, bus>> /\ UNCHANGED conns

\* Notification.objects.filter(...).update(is_read=True)
SyncRead(p) ==
    /\ procs[p].pc = "sync"
    /\ notifications' = MarkNotifsUpTo(notifications, messages, procs[p].user,
                            procs[p].conv, messages[procs[p].msg].created_at)
    /\ procs' = [procs EXCEPT ![p].pc = "publish"]
    /\ UNCHANGED <<now, conversations, participants, messages, listings,
                   transactions, bus>> /\ UNCHANGED conns

\* group_send of the read receipt (REST: if updated; socket: always), then the answer
PublishRead(p) ==
    /\ procs[p].pc = "publish" /\ procs[p].op \in {"read", "ws_read"}
    /\ IF procs[p].op = "ws_read" \/ procs[p].updated
       THEN /\ bus = <<>>
            /\ bus' = Append(bus, Event("read.broadcast", procs[p].conv,
                                        procs[p].msg, procs[p].user))
       ELSE bus' = bus
    /\ procs' = [procs EXCEPT ![p].pc = "done"]
    /\ UNCHANGED <<now, conversations, participants, messages, notifications,
                   listings, transactions>> /\ UNCHANGED conns

\* send / _create_msg: the INSERT of Message.objects.create
InsertMsg(p, op, u, c) ==
    /\ procs[p].pc = "idle"
    /\ c \in Ids(conversations) /\ IsMember(c, u)
    /\ Len(messages) < MaxConcMsgs
    /\ now' = now + 1
    /\ messages' = Append(messages, Msg(c, u, now', <<"h", "i">>, NULL))
    /\ procs' = [procs EXCEPT ![p] =
                    Local("signal", op, u, c, Len(messages) + 1, NULL, FALSE)]
    /\ UNCHANGED <<conversations, participants, notifications, listings,
                   transactions, bus>> /\ UNCHANGED conns

\* the post_save receiver run by that create()
SignalMsg(p) ==
    /\ procs[p].pc = "signal"
    /\ \E r \in FirstOther(participants, procs[p].conv, procs[p].user) :
          notifications' = create_message_notification(notifications,
                               procs[p].msg, procs[p].user, r)
    /\ procs' = [procs EXCEPT ![p].pc = "touch"]
    /\ UNCHANGED <<now, conversations, participants, messages, listings,
                   transactions, bus>> /\ UNCHANGED conns

\* Conversation.objects.filter(pk=conv.pk).update(last_message_at=m.created_at)
TouchMsg(p) ==
    /\ procs[p].pc = "touch"
    /\ conversations' = TouchConversation(conversations, procs[p].conv,
                                          messages[procs[p].msg].created_at)
    /\ procs' = [procs EXCEPT ![p].pc = "publish"]
    /\ UNCHANGED <<now, participants, messages, notifications, listings,
                   transactions, bus>> /\ UNCHANGED conns

\* group_send of message.new, then the answer
PublishMsg(p) ==
    /\ procs[p].pc = "publish" /\ procs[p].op \in {"send", "ws_send"}
    /\ bus = <<>>
    /\ bus' = Append(bus, Event("message.new", procs[p].conv, procs[p].msg,
                                procs[p].user))
    /\ procs' = [procs EXCEPT ![p].pc = "done"]
    /\ UNCHANGED <<now, conversations, participants, messages, notifications,
                   listings, transactions>> /\ UNCHANGED conns

NextConc ==
    \/ \E p \in Procs, op \in {"read", "ws_read"}, u \in Users,
          c \in Ids(conversations), m \in Ids(messages) : LoadRead(p, op, u, c, m)
    \/ \E p \in Procs : SaveRead(p)
    \/ \E p \in Procs : SyncRead(p)
    \/ \E p \in Procs : PublishRead(p)
    \/ \E p \in Procs, op \in {"send", "ws_send"}, u \in Users,
          c \in Ids(conversations) : InsertMsg(p, op, u, c)
    \/ \E p \in Procs : SignalMsg(p)
    \/ \E p \in Procs : TouchMsg(p)
    \/ \E p \in Procs : PublishMsg(p)
    \/ Deliver

SpecConc == InitConc /\ [][NextConc]_vars


\* ================================================================= claims
Ptr(c, u) == participants[<<c, u>>].last_read_message

\* a MESSAGE notification of recipient u for a message of conversation c
\* created at or before time t
Covers(ntf, n, u, c, t) ==
    /\ ntf[n].notification_type = "MESSAGE"
    /\ ntf[n].recipient = u
    /\ ntf[n].message # NULL
    /\ messages[ntf[n].message].conversation = c
    /\ messages[ntf[n].message].created_at <= t

Resolves(c, m) == m \in Ids(messages) /\ messages[m].conversation = c

\* u's pointer in c is set and at least as recent as message m
AtOrBeyond(c, u, m) ==
    /\ Ptr(c, u) # NULL
    /\ messages[m].created_at <= messages[Ptr(c, u)].created_at

\* C1: over mark-read requests served one after another (REST read and
\* socket read.update), last_read_message never moves to a message created
\* earlier than the current pointer's, and a request naming a message
\* created at or before the current pointer's leaves last_read_message and
\* last_read_at as they are and (REST) publishes no receipt.
C1_PointerNeverMovesBack ==
    [][\A c \in Ids(conversations), u \in Users :
          IsMember(c, u) =>
            /\ (Ptr(c, u) # NULL /\ participants'[<<c, u>>] # participants[<<c, u>>])
                  => /\ participants'[<<c, u>>].last_read_message # NULL
                     /\ messages[Ptr(c, u)].created_at
                          < messages'[participants'[<<c, u>>].last_read_message].created_at
            /\ \A m \in Ids(messages) :
                  (/\ Resolves(c, m) /\ AtOrBeyond(c, u, m)
                   /\ (participants' # participants \/ bus' # bus)
                   /\ (Read(u, c, m) \/ WsRead(u, c, m)))
                  => /\ participants' = participants
                     /\ (Read(u, c, m) => bus' = bus)]_vars

\* a pointer was moved to a message that has an older one behind it
C1_Witness ==
    \E c \in Ids(conversations), u \in Users :
        /\ IsMember(c, u) /\ Ptr(c, u) # NULL
        /\ participants[<<c, u>>].last_read_at = now
        /\ \E a \in MsgsOf(c) :
              messages[a].created_at < messages[Ptr(c, u)].created_at

\* C3: the unread count of a participant is the number of messages of the
\* conversation created strictly after the pointer's message, or all of them
\* when no pointer is set; so with N messages, all from peers, it is N
\* before any read and N - K once the pointer stands at the K-th of them.
C3_UnreadCount ==
    \A c \in Ids(conversations), u \in Users :
        IsMember(c, u) =>
          /\ unread_count(u, c) =
                IF Ptr(c, u) = NULL THEN Cardinality(MsgsOf(c))
                ELSE Cardinality({ m \in MsgsOf(c) :
                        messages[m].created_at > messages[Ptr(c, u)].created_at })
          /\ (\A m \in MsgsOf(c) : messages[m].sender # u) =>
                unread_count(u, c) =
                   IF Ptr(c, u) = NULL THEN Cardinality(MsgsOf(c))
                   ELSE Cardinality(MsgsOf(c))
                        - Cardinality({ m \in MsgsOf(c) : m <= Ptr(c, u) })

\* two messages from the peer, the first marked read: one is unread
C3_Witness ==
    \E c \in Ids(conversations), u \in Users :
        /\ IsMember(c, u)
        /\ Cardinality(MsgsOf(c)) = 2
        /\ \A m \in MsgsOf(c) : messages[m].sender # u
        /\ Ptr(c, u) # NULL
        /\ \A m \in MsgsOf(c) : Ptr(c, u) <= m
        /\ unread_count(u, c) = 1

C5_SyncFrame ==
    [][\A c \in Ids(conversations), u \in Users, m \in 1..(Len(messages) + 1) :
          (notifications' # notifications /\ (Read(u, c, m) \/ WsRead(u, c, m)))
          => /\ Len(notifications') = Len(notifications)
             /\ \A n \in Ids(notifications) :
                   notifications'[n] # notifications[n]
                   => /\ Resolves(c, m)
                      /\ Covers(notifications, n, u, c, messages[m].created_at)
                      /\ ~notifications[n].is_read
                      /\ notifications'[n] = [notifications[n] EXCEPT !.is_read = TRUE]]_vars

\* u has read a notification of c while an offer notification of u and an
\* older notification of u in another conversation are still unread
C5_Witness ==
    \E c \in Ids(conversations), u \in Users, n1, n3, n4 \in Ids(notifications) :
        /\ Covers(notifications, n1, u, c, now) /\ notifications[n1].is_read
        /\ notifications[n3].notification_type = "NEW_OFFER"
        /\ notifications[n3].recipient = u /\ ~notifications[n3].is_read
        /\ notifications[n4].notification_type = "MESSAGE"
        /\ notifications[n4].recipient = u
        /\ messages[notifications[n4].message].conversation # c
        /\ notifications[n4].message < notifications[n1].message
        /\ ~notifications[n4].is_read

\* C7: a read.broadcast event is published only by a mark-read request that
\* advanced the reader's pointer to the message the event names.
C7_ReceiptOnlyOnAdvance ==
    [][(Len(bus') = Len(bus) + 1 /\ bus'[Len(bus')].type = "read.broadcast")
          => LET e == bus'[Len(bus')] IN
             /\ IsMember(e.group, e.user)
             /\ participants'[<<e.group, e.user>>] # participants[<<e.group, e.user>>]
             /\ participants'[<<e.group, e.user>>].last_read_message = e.message_id]_vars

\* ------------------------------------------------- interleaved requests
ReadOps == {"read", "ws_read"}

ReadsOf(c, u) ==
    { p \in Procs : procs[p].op \in ReadOps /\ procs[p].user = u /\ procs[p].conv = c }

ReadInProgress(u) ==
    \E p \in Procs : /\ procs[p].op \in ReadOps /\ procs[p].user = u
                     /\ procs[p].pc \in {"save", "sync", "publish"}

\* C2: mark-read requests of one user on one conversation that overlap in
\* time end, once all have completed, with last_read_message at the most
\* recently created of the messages they named.
C2_ConcurrentReadsKeepNewest ==
    \A c \in Ids(conversations), u \in Users :
        (/\ IsMember(c, u)
         /\ ReadsOf(c, u) # {}
         /\ \A p \in ReadsOf(c, u) : procs[p].pc = "done")
        => /\ Ptr(c, u) # NULL
           /\ \A p \in ReadsOf(c, u) :
                 messages[procs[p].msg].created_at <= messages[Ptr(c, u)].created_at

\* C6: whenever no mark-read request of u is in progress and u's pointer in
\* c is set, every MESSAGE notification of u for a message of c created at
\* or before the pointer's message is read, under any interleaving of sends
\* by other users with reads of u.
C6_ReconciledAtRest ==
    \A c \in Ids(conversations), u \in Users :
        (IsMember(c, u) /\ ~ReadInProgress(u) /\ Ptr(c, u) # NULL)
        => \A n \in Ids(notifications) :
              Covers(notifications, n, u, c, messages[Ptr(c, u)].created_at)
              => notifications[n].is_read

\* ------------------------------------------------------------ notifications
NotifsOfMsg(mid) == { n \in Ids(notifications) : notifications[n].message = mid }

OthersOfMsg(mid) ==
    OtherParticipants(participants, messages[mid].conversation, messages[mid].sender)

\* C8: every message created (REST send, socket send, system message of a
\* transaction handler) has exactly one notification, of type MESSAGE, whose
\* recipient is a participant of its conversation other than the sender and
\* whose actor is the sender; a message of a conversation with no other
\* participant has none; the sender is never the recipient.
C8_OneMessageNotification ==
    \A mid \in Ids(messages) :
        /\ OthersOfMsg(mid) # {} =>
              /\ Cardinality(NotifsOfMsg(mid)) = 1
              /\ \A n \in NotifsOfMsg(mid) :
                    /\ notifications[n].notification_type = "MESSAGE"
                    /\ notifications[n].recipient \in OthersOfMsg(mid)
                    /\ notifications[n].actor = messages[mid].sender
        /\ OthersOfMsg(mid) = {} => NotifsOfMsg(mid) = {}

\* a system message with its notification next to a chat message of a
\* conversation whose only participant is its sender
C8_Witness ==
    \E m1, m2 \in Ids(messages) :
        /\ messages[m1].metadata # NULL
        /\ OthersOfMsg(m1) # {} /\ Cardinality(NotifsOfMsg(m1)) = 1
        /\ messages[m2].metadata = NULL
        /\ OthersOfMsg(m2) = {} /\ NotifsOfMsg(m2) = {}

OffersFor(s, b, l) ==
    { n \in Ids(notifications) :
        /\ notifications[n].notification_type = "NEW_OFFER"
        /\ notifications[n].recipient = s
        /\ notifications[n].actor = b
        /\ notifications[n].listing = l }

TxFor(s, b, l) ==
    { t \in Ids(transactions) :
        /\ transactions[t].seller = s
        /\ transactions[t].buyer = b
        /\ transactions[t].listing = l }

\* C9: the NEW_OFFER notifications are, one for one, the transactions whose
\* buyer differs from the seller: recipient the seller, actor the buyer, the
\* transaction's listing attached; updates of a transaction add none.
C9_OfferPerTransaction ==
    /\ \A s \in Users, b \in Users, l \in Ids(listings) :
          Cardinality(OffersFor(s, b, l)) =
             IF s = b THEN 0 ELSE Cardinality(TxFor(s, b, l))
    /\ \A n \in Ids(notifications) :
          notifications[n].notification_type = "NEW_OFFER"
          => /\ notifications[n].listing \in Ids(listings)
             /\ notifications[n].message = NULL

\* a transaction of the owner on the own listing and a transaction of
\* another buyer, both updated after their creation
C9_Witness ==
    \E t1, t2 \in Ids(transactions) :
        /\ transactions[t1].buyer = transactions[t1].seller
        /\ transactions[t1].status # "PENDING"
        /\ transactions[t2].buyer # transactions[t2].seller
        /\ transactions[t2].status # "PENDING"
        /\ Cardinality({ n \in Ids(notifications) :
              notifications[n].notification_type = "NEW_OFFER" }) = 1

AddedNotifs == SubSeq(notifications', Len(notifications) + 1, Len(notifications'))

SoldAdded == SelectSeq(AddedNotifs, LAMBDA x : x.notification_type = "LISTING_SOLD")

\* the transactions of listing l, as the step leaves them, that are not
\* cancelled and whose buyer is not the owner
SoldBuyersTx(l) ==
    { t \in Ids(transactions') :
        /\ transactions'[t].listing = l
        /\ transactions'[t].status # "CANCELLED"
        /\ transactions'[t].buyer # listings[l].user }

\* C10: a save of an existing listing with status sold (the owner's update or
\* mark-sold) adds one LISTING_SOLD notification for each transaction of the
\* listing that is not cancelled and whose buyer is not the owner, with that
\* buyer as recipient, the owner as actor and the listing attached, and adds
\* no other LISTING_SOLD notification.
C10_SoldNotifications ==
    [][\A l \in Ids(listings) :
          (/\ listings'[l].status = "sold"
           /\ \/ SaveListing(l, "sold")
              \/ \E u \in Users, t \in Ids(transactions) :
                    /\ transactions[t].listing = l
                    /\ transactions'[t].status # transactions[t].status
                    /\ mark_sold(u, t))
          => /\ SubSeq(notifications', 1, Len(notifications)) = notifications
             /\ Len(SoldAdded) = Cardinality(SoldBuyersTx(l))
             /\ \A i \in Ids(SoldAdded) :
                   /\ SoldAdded[i].listing = l
                   /\ SoldAdded[i].actor = listings[l].user
                   /\ SoldAdded[i].recipient # listings[l].user
                   /\ SoldAdded[i].message = NULL
                   /\ ~SoldAdded[i].is_read
             /\ \A b \in Users :
                   Cardinality({ i \in Ids(SoldAdded) : SoldAdded[i].recipient = b })
                   = Cardinality({ t \in SoldBuyersTx(l) : transactions'[t].buyer = b })]_vars

\* a sold listing with a pending transaction whose buyer was notified and a
\* cancelled transaction whose buyer was not
C10_Witness ==
    \E l \in Ids(listings), t1, t2 \in Ids(transactions) :
        /\ listings[l].status = "sold"
        /\ transactions[t1].listing = l /\ transactions[t2].listing = l
        /\ transactions[t1].status # "CANCELLED"
        /\ transactions[t1].buyer # listings[l].user
        /\ transactions[t2].status = "CANCELLED"
        /\ transactions[t2].buyer # listings[l].user
        /\ transactions[t2].buyer # transactions[t1].buyer
        /\ \E n \in Ids(notifications) :
              /\ notifications[n].notification_type = "LISTING_SOLD"
              /\ notifications[n].recipient = transactions[t1].buyer
        /\ \A n \in Ids(notifications) :
              notifications[n].notification_type = "LISTING_SOLD"
              => notifications[n].recipient # transactions[t2].buyer

\* C11: a LISTING_SOLD notification is added only by the step that changes
\* the listing's status to sold: a save of a listing that was already sold
\* adds none.
C11_SoldOnlyOnTransition ==
    [][\A i \in Ids(SoldAdded) :
          LET l == SoldAdded[i].listing IN
          /\ listings[l].status # "sold"
          /\ listings'[l].status = "sold"]_vars

\* ------------------------------------------------------ notifications API
\* NotificationViewSet.get_queryset: Notification.objects.filter(recipient=user)
notif_get_queryset_anyRecipient(u) == Ids(notifications)

notif_get_queryset(u) ==
    { n \in Ids(notifications) : notifications[n].recipient = u }

\* order_by("-created_at"): ids grow with created_at
RECURSIVE NewestFirst(_)
NewestFirst(S) ==
    IF S = {} THEN <<>>
    ELSE LET top == CHOOSE x \in S : \A y \in S : y <= x
         IN <<top>> \o NewestFirst(S \ {top})

\* GET /notifications/
notif_list(u) == NewestFirst(notif_get_queryset(u))

\* GET /notifications/unread-count/
notif_unread_count(u) ==
    Cardinality({ n \in notif_get_queryset(u) : ~notifications[n].is_read })

\* the status get_object() leads to: 404 for an id outside the queryset
notif_mark_read_status(u, n) == IF n \in notif_get_queryset(u) THEN 200 ELSE 404

\* POST /notifications/{id}/read/
notif_mark_read_toggle(u, n) ==
    IF n \notin notif_get_queryset(u) THEN Rejected("mark_read", u, n, 404)
    ELSE /\ notifications' = [notifications EXCEPT ![n].is_read = ~@]
         /\ UNCHANGED <<now, conversations, participants, messages,
                        listings, transactions, bus, procs>>

notif_mark_read(u, n) ==
    IF n \notin notif_get_queryset(u) THEN Rejected("mark_read", u, n, 404)
    ELSE /\ notifications' = [notifications EXCEPT ![n].is_read = TRUE]
         /\ UNCHANGED <<now, conversations, participants, messages,
                        listings, transactions, bus, procs>>

\* POST /notifications/mark-all-read/
notif_mark_all_read(u) ==
    /\ notifications' =
          [n \in Ids(notifications) |->
              IF n \in notif_get_queryset(u) /\ ~notifications[n].is_read
              THEN [notifications[n] EXCEPT !.is_read = TRUE]
              ELSE notifications[n]]
    /\ UNCHANGED <<now, conversations, participants, messages,
                   listings, transactions, bus, procs>>

\* the other requests of NotificationViewSet, a ModelViewSet with
\* http_method_names = get, post, head, options: PUT, PATCH and DELETE are
\* answered 405; POST on a notification has no handler (405); POST on the
\* collection reaches create(), where every serializer field is read-only
\* and the INSERT without recipient and actor fails (500)
notif_dispatch(method, detail, u, n) ==
    IF method \notin {"GET", "POST", "HEAD", "OPTIONS"} \/ detail
    THEN Rejected(method, u, n, 405)
    ELSE IF method = "POST" THEN Rejected("create", u, n, 500)
    ELSE Rejected(method, u, n, 200)

DoNotifMarkRead == \E u \in Users, n \in 1..(Len(notifications) + 1) :
    /\ bus = <<>>
    /\ notif_mark_read(u, n) /\ UNCHANGED conns

DoNotifMarkAllRead == \E u \in Users :
    /\ bus = <<>>
    /\ notif_mark_all_read(u) /\ UNCHANGED conns

\* ProfileViewSet.perform_destroy: user.delete() and what the on_delete rules
\* of the rows that refer to the user do.  Notification.recipient, .actor and
\* .listing cascade, as do the user's listings, transactions and participant
\* rows; Message.sender and Conversation.created_by are set to null.  The
\* listings that stay are renumbered.
perform_destroy(u) ==
    LET gone(l) == l # NULL /\ listings[l].user = u
        newl(l) == IF l = NULL THEN NULL
                   ELSE Cardinality({ k \in 1..l : listings[k].user # u })
        keepL(x) == x.user # u
        keepN(x) == x.recipient # u /\ x.actor # u /\ ~gone(x.listing)
        keepT(x) == x.buyer # u /\ x.seller # u /\ ~gone(x.listing)
        relink(s) == [i \in DOMAIN s |-> [s[i] EXCEPT !.listing = newl(@)]]
    IN /\ notifications' = relink(SelectSeq(notifications, keepN))
       /\ transactions' = relink(SelectSeq(transactions, keepT))
       /\ listings' = SelectSeq(listings, keepL)
       /\ participants' = [p \in { q \in DOMAIN participants : q[2] # u } |->
                              participants[p]]
       /\ messages' = [m \in DOMAIN messages |->
                          IF messages[m].sender = u
                          THEN [messages[m] EXCEPT !.sender = NULL]
                          ELSE messages[m]]
       /\ conversations' = [c \in DOMAIN conversations |->
                               IF conversations[c].created_by = u
                               THEN [conversations[c] EXCEPT !.created_by = NULL]
                               ELSE conversations[c]]
       /\ UNCHANGED <<now, bus, procs, conns>>

\* the notifications API over the notifications that sent messages create,
\* and the deletion of accounts
NextNotif ==
    \/ DoSend
    \/ Deliver
    \/ DoNotifMarkRead
    \/ DoNotifMarkAllRead
    \/ \E u \in Users, n \in Ids(notifications), detail \in BOOLEAN,
          method \in {"GET", "POST", "PUT", "PATCH", "DELETE"} :
          notif_dispatch(method, detail, u, n) /\ UNCHANGED conns
    \/ \E u \in Users : bus = <<>> /\ perform_destroy(u)

SpecNotif == InitChat /\ [][NextNotif]_vars

\* C12: the notifications API is scoped to the caller as recipient: a
\* notification of another user is absent from the caller's list and unread
\* count, mark-read by its id answers 404 exactly as for an id that does not
\* exist, and no mark-read or mark-all-read of the caller changes it.
C12_RecipientScope ==
    /\ [](\A a \in Users :
            /\ \A i \in Ids(notif_list(a)) :
                  notifications[notif_list(a)[i]].recipient = a
            /\ notif_unread_count(a) =
                  Cardinality({ n \in Ids(notifications) :
                      notifications[n].recipient = a /\ ~notifications[n].is_read })
            /\ \A n \in Ids(notifications) :
                  notifications[n].recipient # a
                  => notif_mark_read_status(a, n) = 404
            /\ notif_mark_read_status(a, Len(notifications) + 1) = 404)
    /\ [][\A a \in Users :
            (\/ notif_mark_all_read(a)
             \/ \E n \in 1..(Len(notifications) + 1) : notif_mark_read(a, n))
            => \A n \in Ids(notifications) :
                  notifications[n].recipient # a
                  => notifications'[n] = notifications[n]]_vars

\* one user's notification has been marked read while an older notification
\* of another user is still unread
C12_Witness ==
    \E n1, n2 \in Ids(notifications) :
        /\ n2 < n1
        /\ notifications[n1].recipient # notifications[n2].recipient
        /\ notifications[n1].is_read
        /\ ~notifications[n2].is_read

\* ---------------------------------------------------- connection gateway
\* the credential of a websocket handshake: the ?token= of the query string
\* the user ids that tokens name: a participant of both conversations, a
\* participant of one, and an id without a user row
TokenUsers == {1, 3, NumUsers + 1}

Tokens ==
    { [kind |-> k, user_id |-> NULL] : k \in {"absent", "malformed", "valid"} }
    \cup { [kind |-> k, user_id |-> u] :
              k \in {"expired", "valid"}, u \in TokenUsers }

\* JWTAuthMiddleware.__call__ and get_user: the user of the scope, NULL for
\* AnonymousUser
get_user_unverified(tok) == tok.user_id

get_user(tok) ==
    IF tok.kind = "absent" THEN NULL
    ELSE IF tok.kind \in {"malformed", "expired"} THEN NULL
    ELSE IF tok.user_id = NULL THEN NULL
    ELSE IF tok.user_id \notin Users THEN NULL
    ELSE tok.user_id

\* the calls of connect() that may raise
FailPoints == {"none", "is_member", "accept"}

Conn(p, u, c, st, code, gn, sub) ==
    [proc |-> p, user |-> u, conv |-> c, state |-> st, code |-> code,
     group_name |-> gn, subscribed |-> sub, chan |-> <<>>, last_out |-> NoFrame,
     last_in |-> ""]

\* ChatConsumer.connect
connect_anyUser(p, u, c, fail) == Conn(p, u, c, "open", NULL, TRUE, TRUE)

connect(p, u, c, fail) ==
    IF u = NULL THEN Conn(p, u, c, "refused", 4001, FALSE, FALSE)
    ELSE IF fail = "is_member" THEN Conn(p, u, c, "refused", 500, FALSE, FALSE)
    ELSE IF ~IsMember(c, u) THEN Conn(p, u, c, "refused", 4003, FALSE, FALSE)
    ELSE IF fail = "accept" THEN Conn(p, u, c, "refused", 500, TRUE, TRUE)
    ELSE Conn(p, u, c, "open", NULL, TRUE, TRUE)

\* ChatConsumer.disconnect
disconnect_keepGroup(cn) == [cn EXCEPT !.state = "gone", !.chan = <<>>]

disconnect(cn) ==
    [cn EXCEPT !.state = "gone", !.chan = <<>>,
               !.subscribed = IF cn.group_name THEN FALSE ELSE @]

\* a message_id that is not a key, e.g. "abc"
MALFORMED == -1

\* the inbound frames; an absent text reads as "" and an absent message_id
\* as NULL
Frames ==
    { [type |-> "message.send", text |-> t, message_id |-> NULL] :
          t \in Texts \cup {<<>>} }
    \cup { [type |-> "read.update", text |-> <<>>, message_id |-> m] :
              m \in {NULL, MALFORMED} \cup 1..(Len(messages) + 1) }
    \cup { [type |-> t, text |-> <<"h", "i">>, message_id |-> 1] :
              t \in {"typing", NONE} }

StoreUnchanged ==
    UNCHANGED <<now, conversations, participants, messages, notifications,
                listings, transactions, bus, procs>>

\* the connection after its consumer was handed frame f
Seen(cs, k, f) == [cs EXCEPT ![k].last_in = f.type]

\* the layer of process p takes the event the handler has just published
Publish(cs, p) ==
    IF bus' = bus THEN cs ELSE group_send(cs, p, bus'[Len(bus')])

\* ChatConsumer.receive_json on connection k
receive_json_anyTypeSends(k, f) ==
    /\ conns[k].state = "open"
    /\ WsSend(conns[k].user, conns[k].conv, f.text)
    /\ conns' = Publish(Seen(conns, k, f), conns[k].proc)

receive_json(k, f) ==
    LET cn == conns[k] IN
    /\ cn.state = "open"
    /\ IF f.type = "message.send"
       THEN IF strip(f.text) = <<>>
            THEN StoreUnchanged /\ conns' = Seen(conns, k, f)
            ELSE /\ WsSend(cn.user, cn.conv, f.text)
                 /\ conns' = Publish(Seen(conns, k, f), cn.proc)
       ELSE IF f.type = "read.update"
       THEN IF f.message_id = NULL
            THEN StoreUnchanged /\ conns' = Seen(conns, k, f)
            ELSE IF f.message_id = MALFORMED
            \* Message.objects.get(pk="abc") raises ValueError, which
            \* nothing catches: the consumer ends, its channel stays in the group
            THEN /\ StoreUnchanged
                 /\ conns' = [Seen(conns, k, f) EXCEPT ![k].state = "crashed",
                                                       ![k].code = 1011]
            ELSE /\ WsRead(cn.user, cn.conv, f.message_id)
                 /\ conns' = Publish(Seen(conns, k, f), cn.proc)
       ELSE StoreUnchanged /\ conns' = Seen(conns, k, f)

\* the handshake of a client with token tok on the route of conversation c,
\* served by process p
DoConnect == \E p \in Servers, tok \in Tokens, c \in Ids(conversations),
                fail \in FailPoints :
    /\ Len(conns) < MaxConns
    /\ bus = <<>>
    /\ conns' = Append(conns, connect(p, get_user(tok), c, fail))
    /\ StoreUnchanged

\* websocket.disconnect reaches a consumer that still runs
DoDisconnect == \E k \in Ids(conns) :
    /\ conns[k].state \in {"open", "refused"}
    /\ conns' = [conns EXCEPT ![k] = disconnect(conns[k])]
    /\ StoreUnchanged

DoReceive == \E k \in Ids(conns), f \in Frames :
    /\ Len(messages) < MaxMsgs /\ Len(notifications) < MaxNotifs /\ bus = <<>>
    /\ receive_json(k, f)

\* POST /chat/conversations/{id}/send/ served by process p
DoHttpSend == \E p \in Servers, u \in Users, c \in Ids(conversations), text \in Texts :
    /\ IsMember(c, u)
    /\ Len(messages) < MaxMsgs /\ Len(notifications) < MaxNotifs /\ bus = <<>>
    /\ Send(u, c, text)
    /\ conns' = Publish(conns, p)

\* the store after direct(1, 2) and direct(1, 3)
InitGw ==
    /\ now = 0
    /\ conversations = << [direct_key |-> make_direct_key(1, 2), created_by |-> 1,
                           last_message_at |-> NULL],
                         [direct_key |-> make_direct_key(1, 3), created_by |-> 1,
                           last_message_at |-> NULL] >>
    /\ participants = [p \in {<<1, 1>>, <<1, 2>>, <<2, 1>>, <<2, 3>>} |-> NewPart]
    /\ messages = <<>>
    /\ notifications = <<>>
    /\ listings = <<>>
    /\ transactions = <<>>
    /\ bus = <<>>
    /\ procs = [p \in Procs |-> Idle]
    /\ conns = <<>>

\* handshakes and teardowns while messages are sent over REST
NextConn ==
    \/ DoConnect
    \/ DoDisconnect
    \/ DoHttpSend
    \/ Deliver

SpecConn == InitGw /\ [][NextConn]_vars

\* users 1 and 2 each hold an accepted connection to their conversation,
\* on any two server processes
InitFrames ==
    /\ now = 0
    /\ conversations = << [direct_key |-> make_direct_key(1, 2), created_by |-> 1,
                           last_message_at |-> NULL] >>
    /\ participants = [p \in {<<1, 1>>, <<1, 2>>} |-> NewPart]
    /\ messages = <<>>
    /\ notifications = <<>>
    /\ listings = <<>>
    /\ transactions = <<>>
    /\ bus = <<>>
    /\ procs = [p \in Procs |-> Idle]
    /\ \E p1, p2 \in Servers :
          conns = << connect(p1, 1, 1, "none"), connect(p2, 2, 1, "none") >>

\* frames arriving on accepted connections
NextFrames ==
    \/ DoReceive
    \/ DoDisconnect
    \/ Deliver

SpecFrames == InitFrames /\ [][NextFrames]_vars

\* C13: a connection is in the group of a conversation only if its user is
\* authenticated and a participant of the conversation; a connection of an
\* anonymous user or of a non-participant is closed, is never subscribed and
\* is passed no frame; a frame is passed only to an accepted connection and
\* only for an event of the conversation of its route.
C13_GroupOnlyForParticipants ==
    /\ [](\A k \in Ids(conns) :
            /\ conns[k].subscribed
               => conns[k].user # NULL /\ IsMember(conns[k].conv, conns[k].user)
            /\ (conns[k].user = NULL \/ ~IsMember(conns[k].conv, conns[k].user))
               => /\ conns[k].state \in {"refused", "gone"}
                  /\ ~conns[k].subscribed
                  /\ conns[k].chan = <<>>
                  /\ conns[k].last_out = NoFrame
            /\ \A i \in Ids(conns[k].chan) : conns[k].chan[i].group = conns[k].conv
            /\ conns[k].last_out.type = "message.new"
               => conns[k].last_out.message.conversation = conns[k].conv)
    /\ [][\A k \in Ids(conns) :
            conns'[k].last_out # conns[k].last_out
            => /\ conns[k].state = "open"
               /\ bus # <<>>
               /\ Head(bus).group = conns[k].conv
               /\ conns'[k].last_out = Handle(Head(bus))]_vars

\* an accepted connection was passed a message of its conversation, and a
\* later message of the other conversation was published and delivered
\* without reaching it
C13_Witness ==
    \E k \in Ids(conns), m \in Ids(messages) :
        /\ conns[k].state = "open"
        /\ conns[k].last_out.type = "message.new"
        /\ m > conns[k].last_out.message.id
        /\ messages[m].conversation # conns[k].conv
        /\ bus = <<>>

\* the close code and state that a handshake with token tok ends in
Handshake(tok, c, fail) == connect(1, get_user(tok), c, fail)

\* C14: a refused handshake is closed with one of three distinct codes: 4001
\* when the token is absent, malformed, expired or names no user, 4003 when
\* the user is no participant of the conversation, 500 when a call of
\* connect raised; a connection closed with any of them was not accepted.
C14_CloseCodes ==
    /\ \A tok \in Tokens, c \in Ids(conversations), fail \in FailPoints :
          LET cn == Handshake(tok, c, fail)
              valid == tok.kind = "valid" /\ tok.user_id \in Users
          IN /\ ~valid => cn.code = 4001 /\ cn.state = "refused"
             /\ (valid /\ fail # "is_member" /\ ~IsMember(c, tok.user_id))
                => cn.code = 4003 /\ cn.state = "refused"
             /\ (valid /\ (fail = "is_member" \/ (fail = "accept" /\ IsMember(c, tok.user_id))))
                => cn.code = 500 /\ cn.state = "refused"
             /\ (valid /\ fail = "none" /\ IsMember(c, tok.user_id))
                => cn.code = NULL /\ cn.state = "open"
    /\ \A k \in Ids(conns) :
          /\ conns[k].state = "open" => conns[k].code = NULL
          /\ conns[k].state = "refused" => conns[k].code \in {4001, 4003, 500}
          /\ conns[k].code = 4001 <=> conns[k].user = NULL
          /\ conns[k].code = 4003
             => conns[k].user # NULL /\ ~IsMember(conns[k].conv, conns[k].user)

\* a participant's handshake was closed with 500 and its consumer has left
C14_Witness ==
    \E k \in Ids(conns) :
        /\ conns[k].code = 500
        /\ conns[k].state = "gone"
        /\ IsMember(conns[k].conv, conns[k].user)

\* text has a character that is not whitespace
NonBlank(text) == \E i \in Ids(text) : ~IsWhite(text[i])

\* t is text without its leading and trailing whitespace
IsStripped(t, text) ==
    /\ t # <<>> /\ ~IsWhite(t[1]) /\ ~IsWhite(t[Len(t)])
    /\ \E i \in Ids(text) :
          /\ i + Len(t) - 1 <= Len(text)
          /\ SubSeq(text, i, i + Len(t) - 1) = t
          /\ \A j \in Ids(text) : (j < i \/ j > i + Len(t) - 1) => IsWhite(text[j])

\* C15: a send by a participant (REST send or message.send) with a text that
\* has a non-whitespace character stores exactly one message, with the
\* stripped text, and publishes exactly one message.new for it on the
\* conversation; a send with an empty or whitespace-only text stores and
\* publishes nothing.
C15_SendIffNonEmpty ==
    [][\A u \in Users, c \in Ids(conversations), text \in Texts :
          (IsMember(c, u) /\ (Send(u, c, text) \/ WsSend(u, c, text)))
          => IF NonBlank(text)
             THEN /\ Len(messages') = Len(messages) + 1
                  /\ SubSeq(messages', 1, Len(messages)) = messages
                  /\ messages'[Len(messages')].conversation = c
                  /\ messages'[Len(messages')].sender = u
                  /\ IsStripped(messages'[Len(messages')].text, text)
                  /\ bus' = Append(bus, Event("message.new", c, Len(messages'), u))
             ELSE messages' = messages /\ bus' = bus]_vars

\* a stored message whose message.new is on its way to the group
C15_Witness ==
    \E m \in Ids(messages) :
        /\ messages[m].text = <<"h", "i">>
        /\ bus = << Event("message.new", messages[m].conversation, m,
                          messages[m].sender) >>

\* the consumer of a connection keeps taking the events queued for it
FairFrames == SpecFrames /\ WF_vars(Deliver)

\* the connections of InitFrames
FrameConns == {1, 2}

\* C16: an event that a frame handler publishes is queued for every accepted
\* connection in the group of the conversation on the publishing process's
\* layer, the connection of the causing user included; a queued event leaves
\* the queue of a connection that stays open only by its frame being passed
\* to the client, unchanged; and every queued event eventually leaves the
\* queue.
C16_EventuallyReceived ==
    /\ [][\A k \in Ids(conns), f \in Frames :
            (bus' # bus /\ receive_json(k, f))
            => \A j \in GroupOf(conns, conns[k].proc, conns[k].conv) :
                  conns[j].state = "open"
                  => conns'[j].chan = Append(conns[j].chan, bus'[Len(bus')])]_vars
    /\ [][\A j \in Ids(conns) :
            (conns[j].chan # <<>> /\ conns'[j].state = "open"
             /\ conns'[j].chan # conns[j].chan)
            => /\ conns'[j].chan = Tail(conns[j].chan)
               /\ conns'[j].last_out = Handle(Head(conns[j].chan))]_vars
    /\ \A j \in FrameConns : (conns[j].chan # <<>>) ~> (conns[j].chan = <<>>)

\* user 1 sent a text over a connection and both connections, the sender's
\* included, were passed its message.new
C16_Witness ==
    \E m \in Ids(messages) :
        /\ messages[m].sender = conns[1].user
        /\ messages[m].text = <<"h", "i">>
        /\ conns[1].last_out = message_new(Event("message.new", 1, m, conns[1].user))
        /\ conns[2].last_out = conns[1].last_out
        /\ conns[1].state = "open" /\ conns[2].state = "open"

\* C17: an event published by one server process is queued for the accepted
\* connections of the conversation's group that every process holds.
C17_CrossProcessFanOut ==
    [][\A k \in Ids(conns), f \in Frames :
          (bus' # bus /\ receive_json(k, f))
          => \A j \in Ids(conns) :
                (conns[j].state = "open" /\ conns[j].subscribed
                 /\ conns[j].conv = conns[k].conv)
                => conns'[j].chan = Append(conns[j].chan, bus'[Len(bus')])]_vars

\* C18: whatever frame an accepted connection is handed, a failure raised
\* while handling it is caught: the connection stays open and subscribed.
C18_FrameFailureKeepsConnection ==
    [][\A k \in Ids(conns), f \in Frames :
          receive_json(k, f)
          => conns'[k].state = "open" /\ conns'[k].subscribed]_vars

\* C19: a frame whose type is neither message.send nor read.update, or has
\* no type, is ignored: no row of the store changes, no event is published,
\* nothing is queued for or passed to any connection, and the connection
\* stays open and subscribed.
C19_UnknownTypeIgnored ==
    [][\A k \in Ids(conns), f \in Frames :
          (f.type \notin {"message.send", "read.update"} /\ receive_json(k, f))
          => /\ UNCHANGED <<now, conversations, participants, messages,
                            notifications, listings, transactions, bus>>
             /\ conns' = [conns EXCEPT ![k].last_in = f.type]
             /\ conns'[k].state = "open" /\ conns'[k].subscribed]_vars

\* one connection was last handed a frame of an unknown type, the other a
\* frame without type, and both are open
C19_Witness ==
    /\ Len(conns) = 2
    /\ conns[1].last_in = "typing" /\ conns[2].last_in = NONE
    /\ conns[1].state = "open" /\ conns[2].state = "open"
    /\ conns[1].subscribed /\ conns[2].subscribed

\* C20: disconnect takes the connection out of its group, whether connect
\* had accepted it, refused it before joining the group or failed after
\* joining; a connection whose disconnect ran is in no group, has nothing
\* queued and is passed no further frame.
C20_DisconnectLeavesGroup ==
    /\ [](\A k \in Ids(conns) :
            conns[k].state = "gone"
            => ~conns[k].subscribed /\ conns[k].chan = <<>>)
    /\ [][\A k \in Ids(conns) :
            /\ (conns[k].state # "gone" /\ conns'[k].state = "gone")
               => conns'[k] = [conns[k] EXCEPT !.state = "gone", !.chan = <<>>,
                                               !.subscribed = FALSE]
            /\ conns[k].state = "gone" => conns'[k] = conns[k]]_vars

\* a connection was passed a message of its conversation, disconnected, and
\* a later message of the conversation was published and delivered without
\* reaching it
C20_Witness ==
    \E k \in Ids(conns), m \in Ids(messages) :
        /\ conns[k].state = "gone"
        /\ conns[k].last_out.type = "message.new"
        /\ m > conns[k].last_out.message.id
        /\ messages[m].conversation = conns[k].conv
        /\ bus = <<>>

\* ------------------------------------------------- conversations surface
\* conversations opened with direct and written to with send, from an empty store
NextDirect ==
    \/ DoDirect
    \/ DoSend
    \/ Deliver

SpecDirect == Init /\ [][NextDirect]_vars

\* the users with a participant row of conversation c
ParticipantsOf(c) == { x \in Users : IsMember(c, x) }

\* C21: direct is a create-or-fetch: while the pair has no conversation the
\* answer is 201 and the call creates one with exactly the two users as
\* participants; once it exists every call of either user answers 200 with
\* that conversation's id and changes nothing; a call naming a peer without
\* a user row answers 404 and creates nothing.
C21_DirectCreateOrFetch ==
    /\ [](/\ \A u \in Users :
               direct_response(u, NumUsers + 1) = [status |-> 404, id |-> NULL]
          /\ \A c1, c2 \in Ids(conversations) :
               conversations[c1].direct_key = conversations[c2].direct_key => c1 = c2
          /\ \A c \in Ids(conversations) :
               LET u == conversations[c].direct_key[1]
                   peer == conversations[c].direct_key[2]
               IN /\ direct_response(u, peer) = [status |-> 200, id |-> c]
                  /\ direct_response(peer, u) = [status |-> 200, id |-> c]
                  /\ ParticipantsOf(c) = {u, peer}
          /\ \A u \in Users : \A peer \in Users \ {u} :
               direct_response(u, peer).status = 201
               <=> \A c \in Ids(conversations) :
                      conversations[c].direct_key # make_direct_key(u, peer))
    /\ [][(now' = now /\ bus' = bus
           /\ (conversations' # conversations \/ participants' # participants))
          => \A u \in Users : \A peer \in (Users \cup {NumUsers + 1}) \ {u} :
            Direct(u, peer)
            => LET r == direct_response(u, peer) IN
               /\ r.status # 201 => UNCHANGED <<conversations, participants>>
               /\ r.status = 201
                  => /\ Len(conversations') = Len(conversations) + 1
                     /\ SubSeq(conversations', 1, Len(conversations)) = conversations
                     /\ conversations'[r.id].direct_key = make_direct_key(u, peer)
                     /\ DOMAIN participants' =
                           DOMAIN participants \cup {<<r.id, u>>, <<r.id, peer>>}]_vars

\* users 1 and 2 have their conversation, with the two of them as its
\* participants, and a second conversation has been opened since
C21_Witness ==
    \E c \in Ids(conversations) :
        /\ conversations[c].direct_key = make_direct_key(1, 2)
        /\ ParticipantsOf(c) = {1, 2}
        /\ c < Len(conversations)

\* ------------------------------------- concurrent conversation get-or-create
\* The get-or-create block shared by ConversationViewSet.direct,
\* ListingViewSet.contact_seller and create_system_message, one statement per
\* step.  A worker that has read or inserted the row of a key inside its
\* transaction.atomic() holds the row lock until it commits; a worker that
\* needs the same row waits (its step is not enabled).  Each worker serves
\* one request.
\* SELECT ... FOR UPDATE WHERE direct_key = dk
GocGet(p, op, u, v) ==
    /\ procs[p].pc = "idle" /\ u # v
    /\ LET dk == make_direct_key(u, v) IN
       /\ \A q \in Procs \ {p} :
             ~(procs[q].pc \in {"have", "parts"} /\ procs[q].key = dk)
       /\ ConvByKey(dk) = {} =>
             Len(conversations)
               + Cardinality({ q \in Procs : procs[q].pc = "create" }) < MaxConvs
       /\ procs' = [procs EXCEPT ![p] =
             [pc |-> IF ConvByKey(dk) = {} THEN "create" ELSE "have",
              op |-> op, user |-> u, peer |-> v, key |-> dk,
              conv |-> IF ConvByKey(dk) = {} THEN NULL
                       ELSE ConvId(conversations, dk),
              have |-> {}]]
    /\ UNCHANGED <<now, conversations, participants, messages, notifications,
                   listings, transactions, bus, conns>>

\* get_or_create after DoesNotExist: INSERT, and on the unique index's
\* IntegrityError the row is read again
GocCreate(p) ==
    /\ procs[p].pc = "create"
    /\ \A q \in Procs \ {p} :
          ~(procs[q].pc \in {"have", "parts"} /\ procs[q].key = procs[p].key)
    /\ conversations' = GetOrCreateConv(conversations, procs[p].key, procs[p].user)
    /\ procs' = [procs EXCEPT ![p].pc = "have",
                              ![p].conv = ConvId(conversations', procs[p].key)]
    /\ UNCHANGED <<now, participants, messages, notifications, listings,
                   transactions, bus, conns>>

\* have = set(ConversationParticipant.objects.filter(conversation=conv)...)
GocHave(p) ==
    /\ procs[p].pc = "have"
    /\ procs' = [procs EXCEPT ![p].pc = "parts",
                              ![p].have = { x \in Users : IsMember(procs[p].conv, x) }]
    /\ UNCHANGED <<now, conversations, participants, messages, notifications,
                   listings, transactions, bus, conns>>

\* one ConversationParticipant row per user of need (contact_seller: one
\* get_or_create per user), then the commit that ends the atomic block
GocParts(p) ==
    /\ procs[p].pc = "parts"
    /\ LET c == procs[p].conv
           both == {procs[p].user, procs[p].peer}
           need == IF procs[p].op = "contact_seller"
                   THEN { x \in both : ~IsMember(c, x) }
                   ELSE both \ procs[p].have
       IN participants' = EnsureParticipants(participants, c, need)
    /\ procs' = [procs EXCEPT ![p] =
          [pc |-> "done", op |-> "none", user |-> NULL, peer |-> NULL,
           key |-> procs[p].key, conv |-> procs[p].conv, have |-> {}]]
    /\ UNCHANGED <<now, conversations, messages, notifications, listings,
                   transactions, bus, conns>>

NextGoc ==
    \/ \E p \in Procs, op \in {"direct", "contact_seller", "system_message"},
          u \in Traders, v \in Traders : GocGet(p, op, u, v)
    \/ \E p \in Procs : GocCreate(p)
    \/ \E p \in Procs : GocHave(p)
    \/ \E p \in Procs : GocParts(p)

SpecGoc == Init /\ [][NextGoc]_vars

\* C22: under every interleaving of concurrent get-or-create requests there
\* is one conversation row per direct key, requests that finished for the
\* same key resolved to the same conversation and left both users as its
\* participants, no request inserts a participant row that already exists,
\* and a request in progress never waits for ever on the others.
C22_ConcurrentGetOrCreate ==
    /\ \A c1, c2 \in Ids(conversations) :
          conversations[c1].direct_key = conversations[c2].direct_key => c1 = c2
    /\ \A p \in Procs :
          /\ procs[p].pc \in {"have", "parts", "done"} =>
                /\ procs[p].conv \in Ids(conversations)
                /\ conversations[procs[p].conv].direct_key = procs[p].key
          /\ procs[p].pc = "parts" =>
                \A x \in {procs[p].user, procs[p].peer} \ procs[p].have :
                    ~IsMember(procs[p].conv, x)
          /\ procs[p].pc = "done" =>
                { x \in Users : IsMember(procs[p].conv, x) }
                    = {procs[p].key[1], procs[p].key[2]}
    /\ \A p, q \in Procs :
          (/\ procs[p].pc = "done" /\ procs[q].pc = "done"
           /\ procs[p].key = procs[q].key) => procs[p].conv = procs[q].conv
    /\ (\E p \in Procs : procs[p].pc \in {"create", "have", "parts"}) =>
          ENABLED (\E p \in Procs : GocCreate(p) \/ GocHave(p) \/ GocParts(p))

\* two requests for the same pair that both found no row have both finished
C22_Witness ==
    /\ \A p \in {1, 2} : procs[p].pc = "done" /\ procs[p].key = make_direct_key(1, 2)
    /\ procs[1].conv = 1 /\ procs[2].conv = 1
    /\ Len(conversations) = 1 /\ conversations[1].created_by = 2

\* C23: whenever no send is in progress, last_message_at of a conversation
\* is the creation time of its newest message.
C23_LastMessageAtIsNewest ==
    (\A p \in Procs : procs[p].pc \in {"idle", "done"}) =>
        \A c \in Ids(conversations) : \A m \in Ids(messages) :
            messages[m].conversation = c =>
                /\ conversations[c].last_message_at >= messages[m].created_at
                /\ \E k \in Ids(messages) :
                      /\ messages[k].conversation = c
                      /\ messages[k].created_at = conversations[c].last_message_at

\* ------------------------------------------------- the messages endpoint
MaxPageMsgs == 3   \* messages in the store, and the latest creation time
MaxLimit == 2      \* largest limit asked for

\* A before / after query parameter is [kind, v]: absent ("none", 0), a
\* well-formed message id ("id") or a timestamp ("ts").

\* order_by("-created_at") / order_by("created_at"): the orders a database
\* may return the rows of S in; rows of equal created_at come in any order
RECURSIVE Ordered(_, _)
Ordered(S, desc) ==
    IF S = {} THEN { <<>> }
    ELSE UNION { { <<m>> \o s : s \in Ordered(S \ {m}, desc) } :
                 m \in { x \in S : \A y \in S :
                            IF desc
                            THEN messages[x].created_at >= messages[y].created_at
                            ELSE messages[x].created_at <= messages[y].created_at } }

\* ConversationViewSet.messages after get_object(): the answers it can give
list_messages_afterInclusive(c, before, after, limit) ==
    LET all == { m \in Ids(messages) : messages[m].conversation = c }
        bound(cur) == IF cur.kind = "id" THEN messages[cur.v].created_at ELSE cur.v
        older == IF before.kind = "none" THEN all
                 ELSE { m \in all : messages[m].created_at < bound(before) }
        newer == { m \in all : messages[m].created_at >= bound(after) }
        page(s) == SubSeq(s, 1, Min(limit, Len(s)))
    IN IF before.kind = "id" /\ before.v \notin all
       THEN { [status |-> 500, results |-> <<>>, next_before |-> NULL] }
       ELSE IF after.kind = "id" /\ after.v \notin all
       THEN { [status |-> 200, results |-> <<>>, next_before |-> NULL] }
       ELSE { [status |-> 200, results |-> page(s),
               next_before |-> IF s = <<>> THEN NULL
                               ELSE messages[page(s)[Len(page(s))]].created_at] :
              s \in IF after.kind = "none" THEN Ordered(older, TRUE)
                    ELSE Ordered(newer, FALSE) }

list_messages(c, before, after, limit) ==
    LET all == { m \in Ids(messages) : messages[m].conversation = c }
        bound(cur) == IF cur.kind = "id" THEN messages[cur.v].created_at ELSE cur.v
        older == IF before.kind = "none" THEN all
                 ELSE { m \in all : messages[m].created_at < bound(before) }
        newer == { m \in all : messages[m].created_at > bound(after) }
        page(s) == SubSeq(s, 1, Min(limit, Len(s)))
    IN IF before.kind = "id" /\ before.v \notin all
       THEN { [status |-> 500, results |-> <<>>, next_before |-> NULL] }
       ELSE IF after.kind = "id" /\ after.v \notin all
       THEN { [status |-> 200, results |-> <<>>, next_before |-> NULL] }
       ELSE { [status |-> 200, results |-> page(s),
               next_before |-> IF s = <<>> THEN NULL
                               ELSE messages[page(s)[Len(page(s))]].created_at] :
              s \in IF after.kind = "none" THEN Ordered(older, TRUE)
                    ELSE Ordered(newer, FALSE) }

\* GET /chat/conversations/{c}/messages/ by the client whose request, answer
\* and pages collected so far are procs[1]; a request without cursors starts
\* a backward paging run.  The endpoint writes nothing, so one request and
\* its paging run per behaviour cover every answer.
ListMessages(c, before, after, limit) ==
    /\ procs[1].pc = "idle" /\ c \in Ids(conversations)
    /\ \E r \in list_messages(c, before, after, limit) :
          procs' = [procs EXCEPT ![1] =
             [pc |-> "answered", conv |-> c, before |-> before, after |-> after,
              limit |-> limit, status |-> r.status, results |-> r.results,
              next_before |-> r.next_before,
              paging |-> (before.kind = "none" /\ after.kind = "none"),
              seen |-> IF before.kind = "none" /\ after.kind = "none"
                       THEN r.results ELSE <<>>]]
    /\ UNCHANGED <<now, conversations, participants, messages, notifications,
                   listings, transactions, bus, conns>>

\* the follow-up request of a paging run: before = the previous next_before
ListOlder ==
    /\ procs[1].pc = "answered" /\ procs[1].paging /\ procs[1].next_before # NULL
    /\ \E r \in list_messages(procs[1].conv,
                              [kind |-> "ts", v |-> procs[1].next_before],
                              [kind |-> "none", v |-> 0], procs[1].limit) :
          procs' = [procs EXCEPT ![1] =
             [pc |-> "answered", conv |-> procs[1].conv,
              before |-> [kind |-> "ts", v |-> procs[1].next_before],
              after |-> [kind |-> "none", v |-> 0], limit |-> procs[1].limit,
              status |-> r.status, results |-> r.results,
              next_before |-> r.next_before, paging |-> TRUE,
              seen |-> procs[1].seen \o r.results]]
    /\ UNCHANGED <<now, conversations, participants, messages, notifications,
                   listings, transactions, bus, conns>>

\* two conversations and every store of up to MaxPageMsgs messages in them,
\* created in this order at times that never go back
InitPage ==
    /\ now = MaxPageMsgs
    /\ \E n \in 0..MaxPageMsgs :
          /\ messages \in [1..n -> [conversation : {1, 2}, sender : {1},
                                    created_at : 1..MaxPageMsgs,
                                    text : {<<"h", "i">>}, metadata : {NULL}]]
          /\ \A i, j \in 1..n : i < j => messages[i].created_at <= messages[j].created_at
    /\ conversations =
          [c \in {1, 2} |->
             [direct_key |-> make_direct_key(1, c + 1), created_by |-> 1,
              last_message_at |->
                 IF \E m \in Ids(messages) : messages[m].conversation = c
                 THEN messages[CHOOSE m \in Ids(messages) :
                         /\ messages[m].conversation = c
                         /\ \A k \in Ids(messages) : messages[k].conversation = c
                               => k <= m].created_at
                 ELSE NULL]]
    /\ participants = [p \in {<<1, 1>>, <<1, 2>>, <<2, 1>>, <<2, 3>>} |-> NewPart]
    /\ notifications = <<>>
    /\ listings = <<>>
    /\ transactions = <<>>
    /\ bus = <<>>
    /\ procs = [p \in Procs |-> Idle]
    /\ conns = <<>>

NextPage ==
    \/ /\ procs[1].pc = "idle"
       /\ \E c \in {1, 2}, limit \in 1..MaxLimit,
             before, after \in [kind : {"none", "id", "ts"}, v : 0..(MaxPageMsgs + 1)] :
             /\ before.kind = "none" => before.v = 0
             /\ after.kind = "none" => after.v = 0
             /\ before.kind = "id" => before.v > 0
             /\ after.kind = "id" => after.v > 0
             /\ ListMessages(c, before, after, limit)
    \/ ListOlder

SpecPage == InitPage /\ [][NextPage]_vars

C25_NextBeforeIsOldest ==
    (procs[1].pc = "answered" /\ procs[1].status = 200) =>
        LET res == procs[1].results IN
        /\ procs[1].next_before = NULL <=> res = <<>>
        /\ res # <<>> =>
              /\ \E i \in 1..Len(res) :
                    messages[res[i]].created_at = procs[1].next_before
              /\ \A i \in 1..Len(res) :
                    messages[res[i]].created_at >= procs[1].next_before

\* C26: with after = the id of a message m of the conversation the answer
\* holds the messages created strictly after m, oldest first, cut at limit,
\* and never m or an older message; with after = an id that names no message
\* of the conversation the answer is 200 with empty results.
C26_AfterCursor ==
    (/\ procs[1].pc = "answered" /\ procs[1].after.kind = "id"
     /\ ~(procs[1].before.kind = "id" /\ procs[1].status = 500)) =>
        LET all == { m \in Ids(messages) : messages[m].conversation = procs[1].conv }
            res == procs[1].results
            a == procs[1].after.v
        IN /\ procs[1].status = 200
           /\ a \notin all => res = <<>>
           /\ a \in all =>
                 LET later == { m \in all :
                                  messages[m].created_at > messages[a].created_at }
                 IN /\ \A i \in 1..Len(res) : res[i] \in later
                    /\ \A i, j \in 1..Len(res) : i < j =>
                          /\ res[i] # res[j]
                          /\ messages[res[i]].created_at <= messages[res[j]].created_at
                    /\ Len(res) = Min(procs[1].limit, Cardinality(later))
                    /\ \A m \in later : \A i \in 1..Len(res) :
                          (\A k \in 1..Len(res) : res[k] # m) =>
                              messages[m].created_at >= messages[res[i]].created_at

\* after = the first of three messages of the conversation, two newer ones
\* returned while a message of equal creation time as the cursor's is left out
C26_Witness ==
    /\ procs[1].pc = "answered" /\ procs[1].after.kind = "id"
    /\ procs[1].after.v \in Ids(messages)
    /\ messages[procs[1].after.v].conversation = procs[1].conv
    /\ Len(procs[1].results) = 2
    /\ procs[1].before.kind = "none"

\* ConversationViewSet.read: the status and the pointer of the answer.  Only
\* Message.DoesNotExist is caught; a message_id that is not a key makes
\* Message.objects.get raise a validation error, which is answered 500.
read_response(u, c, m) ==
    IF m = MALFORMED THEN [status |-> 500, last_read_message |-> NULL]
    ELSE IF ~(m \in Ids(messages) /\ messages[m].conversation = c)
    THEN [status |-> 400, last_read_message |-> NULL]
    ELSE [status |-> 200,
          last_read_message |->
             IF ShouldAdvance(participants[<<c, u>>].last_read_message, messages, m)
             THEN m ELSE participants[<<c, u>>].last_read_message]

\* C27: for a participant, POST read is answered 400 whenever message_id is
\* missing, unknown, malformed or names a message of another conversation,
\* and 200 with the resulting pointer when it names a message of the
\* conversation.
C27_UnresolvedIs400 ==
    \A c \in Ids(conversations), u \in Users :
        IsMember(c, u) =>
            \A m \in {MALFORMED, NULL} \cup 1..(Len(messages) + 1) :
                IF m \in Ids(messages) /\ messages[m].conversation = c
                THEN /\ read_response(u, c, m).status = 200
                     /\ read_response(u, c, m).last_read_message \in Ids(messages)
                ELSE read_response(u, c, m).status = 400

\* C28: the conversations listed to a user are the ones the user is a
\* participant of, so get_object() finds no conversation for anyone else and
\* retrieve, messages, send and read end in 404; a REST send or read by a
\* user who is not a participant of the conversation stores no message and
\* no notification, moves no pointer and publishes no event.
C28_NonParticipantRefused ==
    /\ [](\A u \in Users : \A c \in get_queryset(u) :
             c \in Ids(conversations) /\ <<c, u>> \in DOMAIN participants)
    /\ [][(messages' # messages \/ participants' # participants
             \/ notifications' # notifications \/ bus' # bus)
          => \A u \in Users : \A c \in Ids(conversations) :
                <<c, u>> \notin DOMAIN participants =>
                    /\ \A text \in Texts : ~Send(u, c, text)
                    /\ \A m \in 1..(Len(messages) + 1) : ~Read(u, c, m)]_vars

\* a conversation with a message and an unread notification that user 3 is
\* not a participant of, while user 3 takes part in another one
C28_Witness ==
    /\ <<1, 3>> \notin DOMAIN participants /\ get_queryset(3) = {2}
    /\ \E m \in Ids(messages) : messages[m].conversation = 1
    /\ \E n \in Ids(notifications) :
          notifications[n].notification_type = "MESSAGE" /\ ~notifications[n].is_read
    /\ bus = <<>>

\* C29: the deletion of an account removes the notifications it is the
\* recipient of and those of its listings, and no other: a notification whose
\* actor is the deleted account stays with its recipient.
C29_RemovedOnlyByCascade ==
    [][\A u \in Users :
          perform_destroy(u) =>
              Len(notifications') =
                  Cardinality({ n \in Ids(notifications) :
                      /\ notifications[n].recipient # u
                      /\ ~(/\ notifications[n].listing # NULL
                           /\ listings[notifications[n].listing].user = u) })]_vars

\* C30: a request to the notifications API changes nothing but is_read of
\* notifications of the caller, and only from false to true: the table keeps
\* its rows, every row keeps its type, recipient, actor and reference, no
\* is_read goes back to false, and nothing outside the table changes.
C30_OnlyMarksOwnRead ==
    [][notifications' # notifications =>
       \A u \in Users :
          (\/ notif_mark_all_read(u)
           \/ \E n \in 1..(Len(notifications) + 1) : notif_mark_read(u, n)
           \/ \E n \in Ids(notifications), detail \in BOOLEAN,
                 method \in {"GET", "POST", "PUT", "PATCH", "DELETE"} :
                 notif_dispatch(method, detail, u, n))
          => /\ Len(notifications') = Len(notifications)
             /\ \A n \in Ids(notifications) :
                   /\ [notifications'[n] EXCEPT !.is_read = FALSE]
                         = [notifications[n] EXCEPT !.is_read = FALSE]
                   /\ notifications[n].is_read => notifications'[n].is_read
                   /\ notifications'[n] # notifications[n]
                         => notifications[n].recipient = u
             /\ UNCHANGED <<now, conversations, participants, messages,
                            listings, transactions, bus, procs, conns>>]_vars

\* a user has marked one of their notifications read and holds another one
\* that is still unread
C30_Witness ==
    \E n1, n2 \in Ids(notifications) :
        /\ notifications[n1].recipient = notifications[n2].recipient
        /\ notifications[n1].is_read /\ ~notifications[n2].is_read

\* ------------------------------------------------------ transaction requests
\* TransactionUpdateViewSet: the status of the answer to request op of user u
\* when get_object returned the instance tx, with a body the serializer accepts
handler_status(op, u, tx) ==
    LET closed == tx.status \in {"COMPLETED", "CANCELLED"}
        party == u = tx.buyer \/ u = tx.seller
        role == IF u = tx.buyer THEN "buyer" ELSE "seller"
    IN CASE op = "payment_method" ->
              IF closed THEN 400 ELSE IF tx.buyer # u THEN 403 ELSE 200
         [] op = "delivery_details" ->
              IF closed THEN 400 ELSE IF ~party THEN 403 ELSE 200
         [] op = "confirm" ->
              IF ~party THEN 403
              ELSE IF tx.proposed_by = NONE THEN 400
              ELSE IF tx.proposed_by = role THEN 400
              ELSE IF tx.status \notin {"PENDING", "NEGOTIATING"} THEN 400
              ELSE 200
         [] op = "mark_sold" ->
              IF tx.seller # u THEN 403 ELSE IF closed THEN 400 ELSE 200
         [] op = "cancel" ->
              IF ~party THEN 403
              ELSE IF closed THEN 400
              ELSE IF tx.status \notin {"PENDING", "NEGOTIATING", "SCHEDULED"} THEN 400
              ELSE 200

\* the status the handler of op answers to user u for transaction t
tx_status(op, u, t) == handler_status(op, u, transactions[t])

\* C31: a transaction whose status is COMPLETED or CANCELLED gets a 4xx
\* answer to every payment-method, delivery-details, confirm, mark-sold and
\* cancel request of every user; no step changes a field of such a
\* transaction, and no step that appends a system message for it or is one
\* of these requests on it changes anything.
C31_TerminalStates ==
    /\ [](\A t \in Ids(transactions) :
            transactions[t].status \in {"COMPLETED", "CANCELLED"} =>
                \A u \in Users :
                \A op \in {"payment_method", "delivery_details", "confirm",
                           "mark_sold", "cancel"} :
                    tx_status(op, u, t) \in {400, 403})
    /\ [][\A t \in Ids(transactions) :
            transactions[t].status \in {"COMPLETED", "CANCELLED"} =>
                /\ transactions'[t] = transactions[t]
                /\ \A m \in Ids(messages') \ Ids(messages) :
                      messages'[m].metadata # t
                /\ \A u \in Traders :
                      ~(\/ \E pm \in PaymentMethods : payment_method(u, t, pm)
                        \/ \E dm \in DeliveryMethods : delivery_details(u, t, dm)
                        \/ confirm(u, t) \/ mark_sold(u, t) \/ cancel(u, t))]_vars

\* one transaction completed and another one cancelled, each after a system
\* message of its own
C31_Witness ==
    \E t1, t2 \in Ids(transactions) :
        /\ transactions[t1].status = "COMPLETED"
        /\ transactions[t2].status = "CANCELLED"
        /\ \E m1, m2 \in Ids(messages) :
              messages[m1].metadata = t1 /\ messages[m2].metadata = t2

C33_MarkSoldAtomic ==
    /\ [](\A t \in Ids(transactions), u \in Users :
            LET tx == transactions[t] IN
            tx_status("mark_sold", u, t) =
                IF u # tx.seller THEN 403
                ELSE IF tx.status \in {"COMPLETED", "CANCELLED"} THEN 400 ELSE 200)
    /\ [][\A t \in Ids(transactions) :
            /\ (transactions'[t].status = "COMPLETED"
                  /\ transactions[t].status # "COMPLETED") =>
                  /\ mark_sold(transactions[t].seller, t)
                  /\ tx_status("mark_sold", transactions[t].seller, t) = 200
                  /\ transactions'[t] = [transactions[t] EXCEPT !.status = "COMPLETED"]
                  /\ listings'[transactions[t].listing].status = "sold"
            /\ \A u \in Traders :
                  mark_sold(u, t) => tx_status("mark_sold", u, t) = 200]_vars

\* a transaction completed by its seller, who is not its buyer, on a listing
\* that is sold
C33_Witness ==
    \E t \in Ids(transactions) :
        /\ transactions[t].status = "COMPLETED"
        /\ transactions[t].buyer # transactions[t].seller
        /\ listings[transactions[t].listing].status = "sold"
        /\ \E m \in Ids(messages) :
              messages[m].metadata = t /\ messages[m].text = <<"sold">>

\* C34: cancel is answered 200 exactly when the caller is the buyer or the
\* seller and the status is PENDING, NEGOTIATING or SCHEDULED, 403 for a third
\* party and 400 otherwise, so a second cancel is answered 400; a step leaves
\* a transaction CANCELLED that was not only if it is such a cancel, which
\* sets the status, clears proposed_by, changes no other field and, in the
\* same step, returns the listing to active when it was pending or sold; a
\* cancel that is not answered 200 changes nothing.
C34_CancelRules ==
    /\ [](\A t \in Ids(transactions), u \in Users :
            LET tx == transactions[t]
                party == u = tx.buyer \/ u = tx.seller
            IN tx_status("cancel", u, t) =
                  IF ~party THEN 403
                  ELSE IF tx.status \in {"PENDING", "NEGOTIATING", "SCHEDULED"}
                       THEN 200 ELSE 400)
    /\ [][\A t \in Ids(transactions) :
            /\ (transactions'[t].status = "CANCELLED"
                  /\ transactions[t].status # "CANCELLED") =>
                  /\ \E u \in {transactions[t].buyer, transactions[t].seller} :
                        cancel(u, t) /\ tx_status("cancel", u, t) = 200
                  /\ transactions'[t] = [transactions[t] EXCEPT
                        !.status = "CANCELLED", !.proposed_by = NONE]
                  /\ listings'[transactions[t].listing].status =
                        IF listings[transactions[t].listing].status \in {"pending", "sold"}
                        THEN "active"
                        ELSE listings[transactions[t].listing].status
            /\ \A u \in Traders :
                  cancel(u, t) => tx_status("cancel", u, t) = 200]_vars

\* a cancelled transaction that held a proposal, on a listing that is active
C34_Witness ==
    \E t \in Ids(transactions) :
        /\ transactions[t].status = "CANCELLED"
        /\ transactions[t].delivery_method # NONE
        /\ transactions[t].proposed_by = NONE
        /\ listings[transactions[t].listing].status = "active"

\* C35: a step appends a message only as one of the five transaction
\* requests answered 200, and then exactly one, carrying the transaction's id
\* as system metadata, in the one conversation whose key is that of buyer and
\* seller, with exactly these users as participants; the conversation and
\* the participant rows are created when absent and reused when present; and
\* every step that changes a transaction appends that message.
C35_OneSystemMessage ==
    [][/\ messages' # messages =>
            /\ Len(messages') = Len(messages) + 1
            /\ SubSeq(messages', 1, Len(messages)) = messages
            /\ LET m == messages'[Len(messages')]
                   t == m.metadata
               IN /\ t \in Ids(transactions)
                  /\ \E u \in Traders :
                     \E op \in {"payment_method", "delivery_details", "confirm",
                                "mark_sold", "cancel"} : tx_status(op, u, t) = 200
                  /\ LET tx == transactions[t]
                         dk == make_direct_key(tx.buyer, tx.seller)
                         c == m.conversation
                     IN /\ conversations'[c].direct_key = dk
                        /\ \A c2 \in Ids(conversations') :
                              conversations'[c2].direct_key = dk => c2 = c
                        /\ { x \in Users : <<c, x>> \in DOMAIN participants' }
                              = {tx.buyer, tx.seller}
                        /\ IF \E c2 \in Ids(conversations) :
                                 conversations[c2].direct_key = dk
                           THEN /\ Len(conversations') = Len(conversations)
                                /\ participants' = participants
                           ELSE /\ Len(conversations') = Len(conversations) + 1
                                /\ c = Len(conversations')
                                /\ DOMAIN participants' = DOMAIN participants
                                      \cup {<<c, tx.buyer>>, <<c, tx.seller>>}
       /\ \A t \in Ids(transactions) :
             transactions'[t] # transactions[t] =>
                 /\ Len(messages') = Len(messages) + 1
                 /\ messages'[Len(messages')].metadata = t]_vars

\* two system messages of one transaction in the conversation that the first
\* of them opened
C35_Witness ==
    /\ Len(conversations) = 1
    /\ \E m1, m2 \in Ids(messages) :
          /\ m1 < m2
          /\ messages[m1].metadata = messages[m2].metadata
          /\ messages[m1].metadata # NULL
          /\ messages[m1].conversation = 1 /\ messages[m2].conversation = 1
          /\ messages[m1].text # messages[m2].text

\* C37: in every state reached by transaction requests served one after
\* another, a NEGOTIATING transaction has proposed_by naming the buyer or the
\* seller, and a PENDING, SCHEDULED or CANCELLED transaction has no
\* proposed_by.
C37_StatusAgreesWithProposal ==
    \A t \in Ids(transactions) :
        /\ transactions[t].status = "NEGOTIATING" =>
              transactions[t].proposed_by \in {"buyer", "seller"}
        /\ transactions[t].status \in {"PENDING", "SCHEDULED", "CANCELLED"} =>
              transactions[t].proposed_by = NONE

\* a proposal of the seller is pending on one transaction while another one
\* has been cancelled
C37_Witness ==
    \E t1, t2 \in Ids(transactions) :
        /\ transactions[t1].status = "NEGOTIATING"
        /\ transactions[t1].proposed_by = "seller"
        /\ transactions[t2].status = "CANCELLED"

\* C38: when a payment-method, delivery-details, confirm or mark-sold request
\* of user u on a transaction between two different users appends its system
\* message, no MESSAGE notification for that message is addressed to u and
\* exactly one is addressed to the other party.
C38_SystemMessageNotifiesCounterparty ==
    [][messages' # messages =>
          LET mid == Len(messages')
              t == messages'[mid].metadata
          IN \A u \in Traders :
                (/\ t \in Ids(transactions)
                 /\ transactions[t].buyer # transactions[t].seller
                 /\ \/ \E pm \in PaymentMethods : payment_method(u, t, pm)
                    \/ \E dm \in DeliveryMethods : delivery_details(u, t, dm)
                    \/ confirm(u, t)
                    \/ mark_sold(u, t))
                => LET other == IF u = transactions[t].buyer
                                THEN transactions[t].seller
                                ELSE transactions[t].buyer
                       for(x) == { n \in Ids(notifications') :
                                     /\ notifications'[n].notification_type = "MESSAGE"
                                     /\ notifications'[n].message = mid
                                     /\ notifications'[n].recipient = x }
                   IN for(u) = {} /\ Cardinality(for(other)) = 1]_vars

TxOps == {"delivery_details", "confirm", "mark_sold", "cancel"}

\* the assignments the handler of op makes to its instance before save()
tx_assign(op, u, tx) ==
    CASE op = "delivery_details" ->
            [tx EXCEPT !.delivery_method = "meetup", !.meet_location = 1,
                       !.meet_time = 1,
                       !.status = IF tx.status \in {"PENDING", "NEGOTIATING", "SCHEDULED"}
                                  THEN "NEGOTIATING" ELSE tx.status,
                       !.proposed_by = IF u = tx.buyer THEN "buyer" ELSE "seller"]
      [] op = "confirm" -> [tx EXCEPT !.status = "SCHEDULED", !.proposed_by = NONE]
      [] op = "mark_sold" -> [tx EXCEPT !.status = "COMPLETED"]
      [] op = "cancel" -> [tx EXCEPT !.status = "CANCELLED", !.proposed_by = NONE]

\* the update_fields of the handler's transaction_obj.save()
update_fields(op) ==
    CASE op = "delivery_details" ->
            {"delivery_method", "meet_location", "meet_time", "status", "proposed_by"}
      [] op = "confirm" -> {"status", "proposed_by"}
      [] op = "mark_sold" -> {"status"}
      [] op = "cancel" -> {"status", "proposed_by"}

\* instance.save(update_fields=fields): UPDATE of the named columns only
save_update_fields(row, inst, fields) ==
    [f \in DOMAIN row |-> IF f \in fields THEN inst[f] ELSE row[f]]

\* transaction_obj = self.get_object()
TxGetObject(p, op, u, t) ==
    /\ procs[p].pc = "idle"
    /\ t \in Ids(transactions)
    /\ procs' = [procs EXCEPT ![p] =
          [pc |-> "loaded", op |-> op, user |-> u, tx |-> t, inst |-> transactions[t]]]
    /\ UNCHANGED <<now, conversations, participants, messages, notifications,
                   listings, transactions, bus, conns>>

\* the handler's checks on its instance, then the save (with the listing in
\* the same atomic block for mark_sold and cancel) or the 4xx answer
TxSave(p) ==
    /\ procs[p].pc = "loaded"
    /\ LET op == procs[p].op
           t == procs[p].tx
           inst == procs[p].inst
       IN IF handler_status(op, procs[p].user, inst) # 200
          THEN /\ procs' = [procs EXCEPT ![p].pc = "done"]
               /\ UNCHANGED <<notifications, listings, transactions>>
          ELSE LET inst2 == tx_assign(op, procs[p].user, inst)
                   txs2 == [transactions EXCEPT ![t] =
                               save_update_fields(transactions[t], inst2, update_fields(op))]
                   l == inst.listing
                   lst2 == IF op = "mark_sold"
                           THEN [listings EXCEPT ![l].status = "sold"]
                           ELSE IF op = "cancel" /\ listings[l].status \in {"pending", "sold"}
                           THEN [listings EXCEPT ![l].status = "active"]
                           ELSE listings
                   ntf1 == create_offer_notification(notifications, inst2, FALSE)
               IN /\ transactions' = txs2
                  /\ listings' = lst2
                  /\ notifications' =
                        IF lst2 # listings \/ op = "mark_sold"
                        THEN create_sold_notification(ntf1, txs2, l, lst2[l], FALSE)
                        ELSE ntf1
                  /\ Len(notifications') <= MaxNotifs
                  /\ procs' = [procs EXCEPT ![p].pc = "saved", ![p].inst = inst2]
    /\ UNCHANGED <<now, conversations, participants, messages, bus, conns>>

\* create_system_message(transaction_obj, message_text), after the save
TxSystemMessage(p) ==
    /\ procs[p].pc = "saved"
    /\ create_system_message(procs[p].tx, procs[p].inst, <<procs[p].op>>, notifications)
    /\ procs' = [procs EXCEPT ![p].pc = "done"]
    /\ UNCHANGED <<listings, transactions, bus, conns>>

\* the store after user 2 made an offer on the listing of user 1 and proposed
\* a meetup: one NEGOTIATING transaction, its system message and notifications
InitTx ==
    /\ now = 1
    /\ conversations = TouchConversation(
                          GetOrCreateConv(<<>>, make_direct_key(2, 1), 2), 1, 1)
    /\ participants = EnsureParticipants([p \in {} |-> NewPart], 1, {1, 2})
    /\ messages = << Msg(1, 2, 1, <<"meetup">>, 1) >>
    /\ notifications = create_message_notification(
                          << Notif("NEW_OFFER", 1, 2, NULL, 1) >>, 1, 2, 1)
    /\ listings = << [user |-> 1, status |-> "active"] >>
    /\ transactions = << [NewTx(1, 2, 1) EXCEPT
                             !.delivery_method = "meetup", !.meet_location = 1,
                             !.meet_time = 1, !.status = "NEGOTIATING",
                             !.proposed_by = "buyer"] >>
    /\ bus = <<>>
    /\ procs = [p \in Procs |-> Idle]
    /\ conns = <<>>

NextTx ==
    \/ \E p \in Procs, op \in TxOps, u \in Traders, t \in Ids(transactions) :
          TxGetObject(p, op, u, t)
    \/ \E p \in Procs : TxSave(p)
    \/ \E p \in Procs : TxSystemMessage(p)

SpecTx == InitTx /\ [][NextTx]_vars

\* C36: under every interleaving of cancel, mark-sold, confirm and
\* delivery-details requests on one transaction, a transaction saved as
\* COMPLETED keeps that status, one saved as CANCELLED never becomes
\* COMPLETED, and the listing of a COMPLETED transaction is never active.
C36_TerminalNeverOverwritten ==
    /\ [][\A t \in Ids(transactions) :
            /\ transactions[t].status = "COMPLETED"
                  => transactions'[t].status = "COMPLETED"
            /\ transactions[t].status = "CANCELLED"
                  => transactions'[t].status # "COMPLETED"]_vars
    /\ [](\A t \in Ids(transactions) :
            transactions[t].status = "COMPLETED"
               => listings[transactions[t].listing].status # "active")

====
